---------------------------- MODULE Spec2Model ----------------------------
(***************************************************************************)
(* The next/dynamic SWC pass (next-transform-dynamic/src/lib.rs) as a      *)
(* state machine.  The pass is one depth-first fold of a module.  The      *)
(* recursion of the visitor is made explicit: `ctl` is the stack of        *)
(* pending visitor frames and `vals` the stack of folded results, so that  *)
(* every entry into and every return from a handler is one step.           *)
(***************************************************************************)
EXTENDS Integers, Sequences, FiniteSets, TLC

(***************************************************************************)
(* Bounds of the explored inputs.                                          *)
(***************************************************************************)
\* largest number of arguments of a generated loader call
MaxArgs == 3
\* largest number of properties of a generated options object
MaxProps == 2
\* largest number of call statements of a generated multi-statement module
MaxStmts == 2

(***************************************************************************)
(* Syntax tree.  Every node is a record with a `kind`; spans are numbers   *)
(* and an identifier's scope identity is its `ctxt`.                       *)
(***************************************************************************)
None == [kind |-> "None"]

DUMMY_SP == 0

Ident(sym, ctxt, span) == [kind |-> "Ident", sym |-> sym, ctxt |-> ctxt, span |-> span]

Str(value, span) == [kind |-> "Str", value |-> value, span |-> span]

Bool(value) == [kind |-> "Bool", value |-> value]

\* a template literal: quasis are [raw, span] chunks, exprs the interpolations
Tpl(quasis, exprs) == [kind |-> "Tpl", quasis |-> quasis, exprs |-> exprs]

\* Callee::Import
ImportCallee == [kind |-> "Import"]

CallExpr(callee, args) == [kind |-> "Call", callee |-> callee, args |-> args]

BlockStmt(stmts) == [kind |-> "BlockStmt", stmts |-> stmts]

ExprStmt(expr) == [kind |-> "ExprStmt", expr |-> expr]

ArrowExpr(is_async, body) == [kind |-> "Arrow", is_async |-> is_async, params |-> <<>>, body |-> body]

ObjectLit(props) == [kind |-> "Object", props |-> props]

\* Prop::KeyValue; key is a PropName: [kind |-> "Ident" | "Str", sym]
KeyValueProp(keykind, sym, value) ==
    [kind |-> "KeyValue", key |-> [kind |-> keykind, sym |-> sym], value |-> value]

SpreadProp(expr) == [kind |-> "Spread", expr |-> expr]

ShorthandProp(sym) == [kind |-> "Shorthand", sym |-> sym]

\* Prop::Method: `sym() {}`
MethodProp(sym, body) ==
    [kind |-> "Method", key |-> [kind |-> "Ident", sym |-> sym], body |-> body]

ArrayLit(elems) == [kind |-> "Array", elems |-> elems]

BinExpr(op, left, right) == [kind |-> "Bin", op |-> op, left |-> left, right |-> right]

MemberExpr(obj, prop) == [kind |-> "Member", obj |-> obj, prop |-> prop]

\* an import specifier: spec is "Default", "Named" or "Namespace"
ImportSpecifier(spec, local, imported) ==
    [kind |-> "ImportSpecifier", spec |-> spec, local |-> local, imported |-> imported]

ImportDecl(src, specifiers) == [kind |-> "ImportDecl", src |-> src, specifiers |-> specifiers]

\* a Vec<ModuleItem>: the body of a module or of a TS namespace block
Items(items) == [kind |-> "Items", items |-> items]

TsModule(name, body) == [kind |-> "TsModule", name |-> name, body |-> body]

Module(body) == [kind |-> "Module", body |-> body]

\* Ident::to_id
to_id(ident) == <<ident.sym, ident.ctxt>>

(***************************************************************************)
(* The children a default fold visits, in visiting order, and the node     *)
(* put together again from its folded children.                            *)
(***************************************************************************)
Children(n) ==
    CASE n.kind = "Call" -> <<n.callee>> \o n.args
      [] n.kind = "Arrow" -> <<n.body>>
      [] n.kind = "BlockStmt" -> n.stmts
      [] n.kind = "ExprStmt" -> <<n.expr>>
      [] n.kind = "Object" -> n.props
      [] n.kind = "KeyValue" -> <<n.value>>
      [] n.kind = "Spread" -> <<n.expr>>
      [] n.kind = "Method" -> <<n.body>>
      [] n.kind = "Array" -> n.elems
      [] n.kind = "Tpl" -> n.exprs
      [] n.kind = "Bin" -> <<n.left, n.right>>
      [] n.kind = "Member" -> <<n.obj>>
      [] n.kind = "Items" -> n.items
      [] n.kind = "TsModule" -> <<n.body>>
      [] n.kind = "Module" -> <<n.body>>
      [] OTHER -> <<>>

Rebuild(n, cs) ==
    CASE n.kind = "Call" -> [n EXCEPT !.callee = cs[1], !.args = SubSeq(cs, 2, Len(cs))]
      [] n.kind = "Arrow" -> [n EXCEPT !.body = cs[1]]
      [] n.kind = "BlockStmt" -> [n EXCEPT !.stmts = cs]
      [] n.kind = "ExprStmt" -> [n EXCEPT !.expr = cs[1]]
      [] n.kind = "Object" -> [n EXCEPT !.props = cs]
      [] n.kind = "KeyValue" -> [n EXCEPT !.value = cs[1]]
      [] n.kind = "Spread" -> [n EXCEPT !.expr = cs[1]]
      [] n.kind = "Method" -> [n EXCEPT !.body = cs[1]]
      [] n.kind = "Array" -> [n EXCEPT !.elems = cs]
      [] n.kind = "Tpl" -> [n EXCEPT !.exprs = cs]
      [] n.kind = "Bin" -> [n EXCEPT !.left = cs[1], !.right = cs[2]]
      [] n.kind = "Member" -> [n EXCEPT !.obj = cs[1]]
      [] n.kind = "Items" -> [n EXCEPT !.items = cs]
      [] n.kind = "TsModule" -> [n EXCEPT !.body = cs[1]]
      [] n.kind = "Module" -> [n EXCEPT !.body = cs[1]]
      [] OTHER -> n

(***************************************************************************)
(* NextDynamicPatcher: the configuration, the visitor's fields, the        *)
(* diagnostics handler, the private-identifier mark counter and the        *)
(* explicit traversal stacks.  `sites` and `lists` are history variables:  *)
(* one record per call through a tracked binding that fold_call_expr has   *)
(* decided, and one per module-item list the import injector has run on.   *)
(* `pass` counts the patchers constructed so far: 1 while the module is    *)
(* folded, 2 while the folded module is folded once more.  `skipped` is a  *)
(* history variable too: one record per call that fold_call_expr has       *)
(* found not to go through a tracked binding.                              *)
(***************************************************************************)
VARIABLES
    is_development, is_server, is_rsc_server_layer, pages_dir, filename,
    dynamic_bindings, is_next_dynamic_first_arg, dynamically_imported_specifier,
    state, added_nextjs_pure_import,
    diagnostics, marks,
    input, ctl, vals, output, sites, lists, pass, skipped

config == <<is_development, is_server, is_rsc_server_layer, pages_dir, filename, input,
            pass>>

vars == <<is_development, is_server, is_rsc_server_layer, pages_dir, filename,
          dynamic_bindings, is_next_dynamic_first_arg, dynamically_imported_specifier,
          state, added_nextjs_pure_import, diagnostics, marks,
          input, ctl, vals, output, sites, lists, pass, skipped>>

Range(s) == {s[i] : i \in 1..Len(s)}

Some(value, span) == [kind |-> "Some", value |-> value, span |-> span]

\* NextDynamicPatcherState
Webpack == [kind |-> "Webpack"]

Turbopack(dynamic_transition_name, imports) ==
    [kind |-> "Turbopack", dynamic_transition_name |-> dynamic_transition_name,
     imports |-> imports]

\* TurbopackImport
DevelopmentTransition(id_ident, chunks_ident, specifier) ==
    [kind |-> "DevelopmentTransition", id_ident |-> id_ident,
     chunks_ident |-> chunks_ident, specifier |-> specifier]

DevelopmentId(id_ident, specifier) ==
    [kind |-> "DevelopmentId", id_ident |-> id_ident, specifier |-> specifier]

BuildTransition(id_ident, specifier) ==
    [kind |-> "BuildTransition", id_ident |-> id_ident, specifier |-> specifier]

BuildId(id_ident, specifier) ==
    [kind |-> "BuildId", id_ident |-> id_ident, specifier |-> specifier]

\* an identifier told apart by its span alone
private_ident_unmarked(span, sym, mark) == Ident(sym, 0, span)

\* private_ident!(span, sym): the identifier carries a mark no other has
private_ident(span, sym, mark) == Ident(sym, mark, span)

\* quote_ident!(sym) and the identifiers quote! builds: no mark, no span
quote_ident(sym) == Ident(sym, 0, DUMMY_SP)

(***************************************************************************)
(* rel_filename.  A path is [win, prefix, abs, comps]: the platform's      *)
(* path syntax (Windows or Unix), the drive prefix ("" when there is       *)
(* none), whether the path has a root, and the components after it ("."    *)
(* is the current and ".." the parent directory).  A FileName is           *)
(* Real(path), Custom(name) or Anon.                                       *)
(***************************************************************************)
UnixPath(abs, comps) == [win |-> FALSE, prefix |-> "", abs |-> abs, comps |-> comps]

WindowsPath(prefix, abs, comps) ==
    [win |-> TRUE, prefix |-> prefix, abs |-> abs, comps |-> comps]

Real(path) == [kind |-> "Real", path |-> path]

Custom(name) == [kind |-> "Custom", name |-> name]

Anon == [kind |-> "Anon"]

Prefixes == {"C:", "D:"}

\* Component::RootDir
RootDir == "RootDir"

\* Path::components
components(path) ==
    (IF path.prefix # "" THEN <<path.prefix>> ELSE <<>>)
    \o (IF path.abs THEN <<RootDir>> ELSE <<>>)
    \o path.comps

\* Path::is_absolute
is_absolute(path) == path.abs /\ (path.win => path.prefix # "")

RECURSIVE Join(_, _, _)
Join(comps, i, sep) ==
    IF i > Len(comps) THEN ""
    ELSE IF i = Len(comps) THEN comps[i]
    ELSE comps[i] \o sep \o Join(comps, i + 1, sep)

\* Path::display
display(path) ==
    LET sep == IF path.win THEN "\\" ELSE "/"
    IN path.prefix \o (IF path.abs THEN sep ELSE "") \o Join(path.comps, 1, sep)

\* FileName as Display
file_to_string(file) ==
    CASE file.kind = "Real" -> display(file.path)
      [] file.kind = "Custom" -> "<" \o file.name \o ">"
      [] OTHER -> "<anon>"

\* PathBuf::push of one component: a prefix replaces the buffer, a root
\* replaces all but the prefix
push(buf, c) ==
    IF c \in Prefixes THEN [buf EXCEPT !.prefix = c, !.abs = FALSE, !.comps = <<>>]
    ELSE IF c = RootDir THEN [buf EXCEPT !.abs = TRUE, !.comps = <<>>]
    ELSE [buf EXCEPT !.comps = Append(@, c)]

\* PathBuf::from_iter
RECURSIVE collect(_, _, _)
collect(comps, i, buf) ==
    IF i > Len(comps) THEN buf ELSE collect(comps, i + 1, push(buf, comps[i]))

\* the Vec<Component> the loop of diff_paths ends with
Components(comps) == [kind |-> "Components", comps |-> comps]

\* pathdiff::diff_paths, the loop over the two component iterators: k is
\* the position both have reached, comps the components collected so far
RECURSIVE diff_loop(_, _, _, _)
diff_loop(path, base, k, comps) ==
    CASE k > Len(path) /\ k > Len(base) -> Components(comps)
      [] k <= Len(path) /\ k > Len(base) ->
            Components(comps \o SubSeq(path, k, Len(path)))
      [] k > Len(path) /\ k <= Len(base) -> diff_loop(path, base, k + 1, comps \o <<"..">>)
      [] OTHER ->
            IF comps = <<>> /\ path[k] = base[k] THEN diff_loop(path, base, k + 1, comps)
            ELSE IF base[k] = "." THEN diff_loop(path, base, k + 1, comps \o <<path[k]>>)
            ELSE IF base[k] = ".." THEN None
            ELSE Components(comps \o [i \in 1..(Len(base) - k + 1) |-> ".."]
                            \o SubSeq(path, k, Len(path)))

\* pathdiff::diff_paths
diff_paths(path, base) ==
    IF is_absolute(path) # is_absolute(base)
    THEN IF is_absolute(path) THEN path ELSE None
    ELSE LET diff == diff_loop(components(path), components(base), 1, <<>>)
         IN IF diff.kind = "None" THEN None
            ELSE collect(diff.comps, 1, [win |-> path.win, prefix |-> "", abs |-> FALSE,
                                    comps |-> <<>>])

rel_filename(base, file) ==
    IF base = None THEN file_to_string(file)
    ELSE IF file.kind # "Real" THEN file_to_string(file)
    ELSE LET rel_path == diff_paths(file.path, base)
         IN IF rel_path = None THEN display(file.path) ELSE display(rel_path)

(***************************************************************************)
(* The generated metadata.                                                 *)
(***************************************************************************)
module_id_options(module_id) ==
    <<KeyValueProp("Ident", "modules", ArrayLit(<<module_id>>))>>

webpack_options(module_id) ==
    <<KeyValueProp("Ident", "webpack", ArrowExpr(FALSE, ArrayLit(<<module_id>>)))>>

\* quote!("$left + $right")
quote_concat(left, right) == BinExpr("+", Str(left, DUMMY_SP), Str(right, DUMMY_SP))

\* quote!("require.resolveWeak($id)")
quote_resolve_weak(id) ==
    CallExpr(MemberExpr(quote_ident("require"), "resolveWeak"), <<Str(id, DUMMY_SP)>>)

\* quote!("JSON.stringify({ id: $id, chunks: $chunks })")
quote_stringify(id, chunks) ==
    CallExpr(MemberExpr(quote_ident("JSON"), "stringify"),
             <<ObjectLit(<<KeyValueProp("Ident", "id", id),
                           KeyValueProp("Ident", "chunks", chunks)>>)>>)

\* lines 244-337: the props of the generated object, the imports queued
\* for it and the number of marks after it, from the patcher's fields
\* and the taken specifier
\* the simple-mode metadata keyed by `modules` only in development on the server
generated_webpack_both(specifier) ==
    IF is_development /\ is_server
    THEN module_id_options(
             quote_concat(rel_filename(pages_dir, filename) \o " -> ", specifier))
    ELSE webpack_options(quote_resolve_weak(specifier))

\* the simple-mode metadata with the server-component layer counted as
\* the client
generated_webpack_by_layer(specifier) ==
    IF is_development \/ (is_server /\ ~is_rsc_server_layer)
    THEN module_id_options(
             quote_concat(rel_filename(pages_dir, filename) \o " -> ", specifier))
    ELSE webpack_options(quote_resolve_weak(specifier))

generated_webpack(specifier) ==
    IF is_development \/ is_server
    THEN module_id_options(
             quote_concat(rel_filename(pages_dir, filename) \o " -> ", specifier))
    ELSE webpack_options(quote_resolve_weak(specifier))

generated_turbopack(specifier, span) ==
    LET id_ident == private_ident(span, "id", marks + 1)
        second == private_ident(span, IF is_development THEN "chunks" ELSE "id", marks + 2)
    IN CASE is_development /\ is_server ->
              [props |-> module_id_options(quote_stringify(id_ident, second)),
               queued |-> <<DevelopmentTransition(id_ident, second, specifier)>>,
               marks |-> marks + 2]
         [] is_development /\ ~is_server ->
              [props |-> module_id_options(id_ident),
               queued |-> <<DevelopmentId(id_ident, specifier)>>,
               marks |-> marks + 1]
         [] ~is_development /\ is_server ->
              [props |-> module_id_options(second),
               queued |-> <<BuildTransition(second, specifier)>>,
               marks |-> marks + 2]
         [] OTHER ->
              [props |-> module_id_options(second),
               queued |-> <<BuildId(second, specifier)>>,
               marks |-> marks + 2]

generated(specifier, span) ==
    IF state.kind = "Webpack"
    THEN [props |-> generated_webpack(specifier), queued |-> <<>>, marks |-> marks]
    ELSE generated_turbopack(specifier, span)

(***************************************************************************)
(* fold_call_expr: the checks and the pieces of the rewrite.               *)
(***************************************************************************)
\* the callee looked up by its name alone
is_dynamic_call_by_name(expr) ==
    /\ expr.callee.kind = "Ident"
    /\ \E k \in 1..Len(dynamic_bindings) : dynamic_bindings[k][1] = expr.callee.sym

\* lines 185-187: the callee is an identifier found in dynamic_bindings
is_dynamic_call(expr) ==
    /\ expr.callee.kind = "Ident"
    /\ to_id(expr.callee) \in Range(dynamic_bindings)

NoError == "ok"

RequiresArgument == "next/dynamic requires at least one argument"

OnlyTwoArguments == "next/dynamic only accepts 2 arguments"

OptionsNotObject ==
    "next/dynamic options must be an object literal.\nRead more: https://nextjs.org/docs/messages/invalid-dynamic-options-type"

\* validate with the arity bound off by one
validate_three_arguments(expr) ==
    IF Len(expr.args) = 0 THEN RequiresArgument
    ELSE IF Len(expr.args) > 3 THEN OnlyTwoArguments
    ELSE IF Len(expr.args) = 2 /\ expr.args[2].kind # "Object" THEN OptionsNotObject
    ELSE NoError

\* validate without the check of the options' shape
validate_any_options(expr) ==
    IF Len(expr.args) = 0 THEN RequiresArgument
    ELSE IF Len(expr.args) > 2 THEN OnlyTwoArguments
    ELSE NoError

\* lines 188-224: the message of the diagnostic the call earns, if any
validate(expr) ==
    IF Len(expr.args) = 0 THEN RequiresArgument
    ELSE IF Len(expr.args) > 2 THEN OnlyTwoArguments
    ELSE IF Len(expr.args) = 2 /\ expr.args[2].kind # "Object" THEN OptionsNotObject
    ELSE NoError

\* the capture taking an identifier argument for a specifier too
captured_specifier_or_ident(expr, slot) ==
    IF expr.callee.kind # "Import" THEN slot
    ELSE LET arg == expr.args[1]
         IN CASE arg.kind = "Str" -> Some(arg.value, arg.span)
              [] arg.kind = "Tpl" /\ Len(arg.exprs) = 0 ->
                    Some(arg.quasis[1].raw, arg.quasis[1].span)
              [] arg.kind = "Ident" -> Some(arg.sym, arg.span)
              [] OTHER -> slot

\* the capture keeping the first specifier it finds
captured_specifier_first(expr, slot) ==
    IF expr.callee.kind # "Import" \/ slot # None THEN slot
    ELSE LET arg == expr.args[1]
         IN CASE arg.kind = "Str" -> Some(arg.value, arg.span)
              [] arg.kind = "Tpl" /\ Len(arg.exprs) = 0 ->
                    Some(arg.quasis[1].raw, arg.quasis[1].span)
              [] OTHER -> slot

\* lines 169-181: what a call met in capture mode leaves in the slot
captured_specifier(expr, slot) ==
    IF expr.callee.kind # "Import" THEN slot
    ELSE LET arg == expr.args[1]
         IN CASE arg.kind = "Str" -> Some(arg.value, arg.span)
              [] arg.kind = "Tpl" /\ Len(arg.exprs) = 0 ->
                    Some(arg.quasis[1].raw, arg.quasis[1].span)
              [] OTHER -> slot

\* the test of the capture flag left out
never_capturing(flag) == FALSE

\* line 169: the call is met while argument 0 is visited for its specifier
capturing(flag) == flag

\* the record put at the head of the pending imports
push_front(imports, queued) == queued \o imports

\* lines 276, 298, 314, 327: imports.push
push_import(imports, queued) == imports \o queued

\* the slot read without being emptied
take_peeked(slot) == slot

\* line 231: what Option::take leaves in the slot
take(slot) == None

\* lines 353-389: one property's contribution to has_ssr_false
is_ssr_false(prop) ==
    /\ prop.kind = "KeyValue"
    /\ prop.key.kind = "Ident"
    /\ prop.key.sym = "ssr"
    /\ prop.value.kind = "Bool"
    /\ prop.value.value = FALSE

\* the scan with the last `ssr` property deciding
has_ssr_false_last_wins(expr) ==
    /\ Len(expr.args) = 2
    /\ expr.args[2].kind = "Object"
    /\ \E i \in 1..Len(expr.args[2].props) :
          /\ is_ssr_false(expr.args[2].props[i])
          /\ \A j \in (i + 1)..Len(expr.args[2].props) :
                ~(/\ expr.args[2].props[j].kind = "KeyValue"
                  /\ expr.args[2].props[j].key.sym = "ssr")

\* lines 345-392
has_ssr_false(expr) ==
    /\ Len(expr.args) = 2
    /\ expr.args[2].kind = "Object"
    /\ \E i \in 1..Len(expr.args[2].props) : is_ssr_false(expr.args[2].props[i])

\* the wrapper condition without the server-component-layer flag
wraps_loader_any_layer(expr) == has_ssr_false(expr) /\ is_server

\* lines 408-410
wraps_loader(expr) == has_ssr_false(expr) /\ is_server /\ ~is_rsc_server_layer

\* the wrapper with the loader itself as its statement, not the helper call
side_effect_free_loader_arg_bare(loader) ==
    ArrowExpr(TRUE, BlockStmt(<<ExprStmt(loader)>>))

\* lines 427-453
side_effect_free_loader_arg(loader) ==
    ArrowExpr(TRUE, BlockStmt(<<ExprStmt(CallExpr(quote_ident("__nextjs_pure"), <<loader>>))>>))

\* the merge replacing a metadata property the options already have
merged_props_replacing(generated_props, expr) ==
    <<KeyValueProp("Ident", "loadableGenerated", ObjectLit(generated_props))>>
    \o (IF Len(expr.args) = 2 /\ expr.args[2].kind = "Object"
        THEN SelectSeq(expr.args[2].props,
                       LAMBDA p : ~(p.kind = "KeyValue" /\ p.key.sym = "loadableGenerated"))
        ELSE <<>>)

\* the merge with the metadata property behind the options' properties
merged_props_behind(generated_props, expr) ==
    (IF Len(expr.args) = 2 /\ expr.args[2].kind = "Object"
     THEN expr.args[2].props ELSE <<>>)
    \o <<KeyValueProp("Ident", "loadableGenerated", ObjectLit(generated_props))>>

\* lines 339-343 and 390
merged_props(generated_props, expr) ==
    <<KeyValueProp("Ident", "loadableGenerated", ObjectLit(generated_props))>>
    \o (IF Len(expr.args) = 2 /\ expr.args[2].kind = "Object"
        THEN expr.args[2].props ELSE <<>>)

\* lines 462-474
with_second_arg(expr, second_arg) ==
    IF Len(expr.args) = 2
    THEN [expr EXCEPT !.args[2] = second_arg]
    ELSE [expr EXCEPT !.args = Append(expr.args, second_arg)]

(***************************************************************************)
(* maybe_add_dynamically_imported_specifier and fold_module's import.      *)
(***************************************************************************)
transition_marker(dynamic_transition_name) ==
    ExprStmt(Str("TURBOPACK { transition: " \o dynamic_transition_name \o " }", DUMMY_SP))

chunking_none_marker == ExprStmt(Str("TURBOPACK { chunking-type: none }", DUMMY_SP))

module_id_import(id_ident, specifier) ==
    ImportDecl(specifier,
        <<ImportSpecifier("Named", id_ident, "__turbopack_module_id__")>>)

\* lines 529-643: the two statements of one record
import_items(import, dynamic_transition_name) ==
    CASE import.kind = "DevelopmentTransition" ->
            <<transition_marker(dynamic_transition_name),
              ImportDecl(import.specifier,
                  <<ImportSpecifier("Default", import.id_ident, ""),
                    ImportSpecifier("Named", import.chunks_ident, "chunks")>>)>>
      [] import.kind = "DevelopmentId" ->
            <<chunking_none_marker, module_id_import(import.id_ident, import.specifier)>>
      [] import.kind = "BuildTransition" ->
            <<transition_marker(dynamic_transition_name),
              module_id_import(import.id_ident, import.specifier)>>
      [] OTHER ->
            <<chunking_none_marker, module_id_import(import.id_ident, import.specifier)>>

RECURSIVE new_items(_, _, _)
new_items(imports, i, dynamic_transition_name) ==
    IF i > Len(imports) THEN <<>>
    ELSE import_items(imports[i], dynamic_transition_name)
         \o new_items(imports, i + 1, dynamic_transition_name)

\* the injector reading the queue without taking it
maybe_add_without_take(st, items) ==
    IF st.kind # "Turbopack" THEN [state |-> st, items |-> items]
    ELSE [state |-> st,
          items |-> new_items(st.imports, 1, st.dynamic_transition_name) \o items]

\* the injector putting its statements behind the items
maybe_add_behind(st, items) ==
    IF st.kind # "Turbopack" THEN [state |-> st, items |-> items]
    ELSE [state |-> [st EXCEPT !.imports = <<>>],
          items |-> items \o new_items(st.imports, 1, st.dynamic_transition_name)]

\* the injector emitting a marker in every mode
maybe_add_marker_always(st, items) ==
    IF st.kind # "Turbopack" THEN [state |-> st, items |-> <<chunking_none_marker>> \o items]
    ELSE [state |-> [st EXCEPT !.imports = <<>>],
          items |-> new_items(st.imports, 1, st.dynamic_transition_name) \o items]

\* lines 517-649: the items of the list and the patcher state after it
maybe_add_dynamically_imported_specifier(st, items) ==
    IF st.kind # "Turbopack" THEN [state |-> st, items |-> items]
    ELSE [state |-> [st EXCEPT !.imports = <<>>],
          items |-> new_items(st.imports, 1, st.dynamic_transition_name) \o items]

\* swc_ecma_utils::prepend_stmt: the statement goes after the leading
\* string-literal expression statements (the directive prologue)
is_directive(item) == item.kind = "ExprStmt" /\ item.expr.kind = "Str"

RECURSIVE directives(_, _)
directives(stmts, i) ==
    IF i <= Len(stmts) /\ is_directive(stmts[i]) THEN directives(stmts, i + 1) ELSE i - 1

prepend_stmt(stmts, stmt) ==
    LET idx == directives(stmts, 1)
    IN SubSeq(stmts, 1, idx) \o <<stmt>> \o SubSeq(stmts, idx + 1, Len(stmts))

\* line 135
nextjs_pure_import ==
    ImportDecl("next/dist/build/swc/helpers",
        <<ImportSpecifier("Named", quote_ident("__nextjs_pure"), "")>>)

\* the locals of all the specifiers, whatever their kind
RECURSIVE all_locals(_, _)
all_locals(specifiers, i) ==
    IF i > Len(specifiers) THEN <<>>
    ELSE <<to_id(specifiers[i].local)>> \o all_locals(specifiers, i + 1)

\* lines 157-163: the bindings after an import declaration
RECURSIVE default_locals(_, _)
default_locals(specifiers, i) ==
    IF i > Len(specifiers) THEN <<>>
    ELSE (IF specifiers[i].spec = "Default" THEN <<to_id(specifiers[i].local)>> ELSE <<>>)
         \o default_locals(specifiers, i + 1)

bindings_after(bindings, decl) ==
    IF decl.src = "next/dynamic"
    THEN bindings \o default_locals(decl.specifiers, 1)
    ELSE bindings

(***************************************************************************)
(* The traversal.  A frame of `ctl` is [t, n, c, o]: "fold" visits node n; *)
(* the other frames are the rest of a handler that waits for c folded      *)
(* children on `vals` (o: the call as it was before its children were      *)
(* folded).                                                                *)
(***************************************************************************)
Frame(t, n, c, o) == [t |-> t, n |-> n, c |-> c, o |-> o]

Fold(n) == Frame("fold", n, 0, None)

FoldAll(ns) == [i \in 1..Len(ns) |-> Fold(ns[i])]

Top == Head(ctl)

\* the c values on top of `vals`, oldest first, and `vals` without them
Popped(c) == SubSeq(vals, Len(vals) - c + 1, Len(vals))

Below(c) == SubSeq(vals, 1, Len(vals) - c)

Visiting(kinds) == ctl # <<>> /\ Top.t = "fold" /\ Top.n.kind \in kinds

Waiting(t) == ctl # <<>> /\ Top.t = t

\* the pending imports of a patcher state
Queue(st) == IF st.kind = "Turbopack" THEN st.imports ELSE <<>>

\* one record of `sites`: the call as it came in, as it was once its
\* children were folded and as fold_call_expr returned it, with the
\* patcher's fields before and after the step that decided it
Site(orig, visited, out, captured) ==
    [span |-> visited.callee.span, input |-> orig, visited |-> visited, output |-> out,
     captured |-> captured, pass |-> pass,
     queue_before |-> Queue(state), queue_after |-> Queue(state'),
     pure_before |-> added_nextjs_pure_import, pure_after |-> added_nextjs_pure_import',
     diags_before |-> Len(diagnostics), diags_after |-> Len(diagnostics'),
     bindings |-> dynamic_bindings]

\* one record of `skipped`: a call that fold_call_expr returned at line
\* 478 without entering the branch of the tracked bindings
Skipped(orig, visited, out) ==
    [input |-> orig, visited |-> visited, output |-> out, pass |-> pass,
     bindings |-> dynamic_bindings,
     queue_before |-> Queue(state), queue_after |-> Queue(state'),
     pure_before |-> added_nextjs_pure_import, pure_after |-> added_nextjs_pure_import',
     diags_before |-> Len(diagnostics), diags_after |-> Len(diagnostics')]

\* the flag assigned from the last call site instead of or-ed
pure_import_flag_assigned(flag, wrapped) == wrapped

\* line 423: the flag after a call site that wraps its loader or does not
pure_import_flag(flag, wrapped) == flag \/ wrapped

patcher == <<dynamic_bindings, is_next_dynamic_first_arg, dynamically_imported_specifier,
             state, added_nextjs_pure_import, diagnostics, marks>>

\* fold_module, line 130: into the body
fold_module ==
    /\ Visiting({"Module"})
    /\ ctl' = <<Fold(Top.n.body), Frame("fold_module", Top.n, 1, None)>> \o Tail(ctl)
    /\ UNCHANGED <<config, patcher, vals, output, sites, lists, skipped>>

\* fold_module, lines 134-140: the pure-call helper import and the result
fold_module_return ==
    /\ Waiting("fold_module")
    /\ LET body == Popped(1)[1]
           m == [Top.n EXCEPT !.body =
                    IF added_nextjs_pure_import
                    THEN Items(prepend_stmt(body.items, nextjs_pure_import))
                    ELSE body]
       IN /\ output' = m
          /\ vals' = Below(1)
    /\ ctl' = Tail(ctl)
    /\ UNCHANGED <<config, patcher, sites, lists, skipped>>

\* fold_module_items, line 144: into the items
fold_module_items ==
    /\ Visiting({"Items"})
    /\ ctl' = FoldAll(Top.n.items)
              \o <<Frame("fold_module_items", Top.n, Len(Top.n.items), None)>>
              \o Tail(ctl)
    /\ UNCHANGED <<config, patcher, vals, output, sites, lists, skipped>>

\* fold_module_items, lines 146-148: the import injector on the folded items
fold_module_items_return ==
    /\ Waiting("fold_module_items")
    /\ LET r == maybe_add_dynamically_imported_specifier(state, Popped(Top.c))
       IN /\ state' = r.state
          /\ vals' = Append(Below(Top.c), Items(r.items))
          /\ lists' = Append(lists, [imports |-> Queue(state), items |-> Popped(Top.c),
                                     result |-> r.items, left |-> Queue(r.state)])
    /\ ctl' = Tail(ctl)
    /\ UNCHANGED <<config, dynamic_bindings, is_next_dynamic_first_arg,
                   dynamically_imported_specifier, added_nextjs_pure_import,
                   diagnostics, marks, output, sites, skipped>>

\* fold_import_decl, lines 151-166: the declaration itself is not folded
fold_import_decl ==
    /\ Visiting({"ImportDecl"})
    /\ dynamic_bindings' = bindings_after(dynamic_bindings, Top.n)
    /\ vals' = Append(vals, Top.n)
    /\ ctl' = Tail(ctl)
    /\ UNCHANGED <<config, is_next_dynamic_first_arg, dynamically_imported_specifier,
                   state, added_nextjs_pure_import, diagnostics, marks, output, sites,
                   lists, skipped>>

\* fold_call_expr, lines 169-183: a call met while capturing the specifier
fold_call_expr_first_arg ==
    /\ Visiting({"Call"})
    /\ capturing(is_next_dynamic_first_arg)
    /\ dynamically_imported_specifier' =
           captured_specifier(Top.n, dynamically_imported_specifier)
    /\ ctl' = FoldAll(Children(Top.n))
              \o <<Frame("fold_children", Top.n, Len(Children(Top.n)), None)>>
              \o Tail(ctl)
    /\ UNCHANGED <<config, dynamic_bindings, is_next_dynamic_first_arg, state,
                   added_nextjs_pure_import, diagnostics, marks, vals, output, sites,
                   lists, skipped>>

\* fold_call_expr, line 184: the children first
fold_call_expr ==
    /\ Visiting({"Call"})
    /\ ~capturing(is_next_dynamic_first_arg)
    /\ ctl' = FoldAll(Children(Top.n))
              \o <<Frame("fold_call_expr", Top.n, Len(Children(Top.n)), Top.n)>>
              \o Tail(ctl)
    /\ UNCHANGED <<config, patcher, vals, output, sites, lists, skipped>>

\* the traversal given up at the first rejected call
abandon(stack) == <<>>

\* lines 198, 207 and 222: `return expr` after a diagnostic hands the call
\* back to the fold of its parent, which goes on
return_expr(stack) == Tail(stack)

\* fold_call_expr, lines 185-228: the callee, the arity and the options
\* shape, and then into argument 0 with the capture flag set
fold_call_expr_validate ==
    /\ Waiting("fold_call_expr")
    /\ UNCHANGED <<config, dynamic_bindings, dynamically_imported_specifier, state,
                   added_nextjs_pure_import, marks, output, lists>>
    /\ LET expr == Rebuild(Top.n, Popped(Top.c))
           error == validate(expr)
       IN IF ~is_dynamic_call(expr)
          THEN /\ vals' = Append(Below(Top.c), expr)
               /\ ctl' = Tail(ctl)
               /\ UNCHANGED <<is_next_dynamic_first_arg, diagnostics, sites>>
               /\ skipped' = Append(skipped, Skipped(Top.o, expr, expr))
          ELSE IF error # NoError
          THEN /\ diagnostics' =
                      Append(diagnostics, [span |-> expr.callee.span, message |-> error])
               /\ vals' = Append(Below(Top.c), expr)
               /\ ctl' = return_expr(ctl)
               /\ UNCHANGED <<is_next_dynamic_first_arg, skipped>>
               /\ sites' = Append(sites, Site(Top.o, expr, expr, None))
          ELSE /\ is_next_dynamic_first_arg' = TRUE
               /\ vals' = Below(Top.c)
               /\ ctl' = <<Fold(expr.args[1]), Frame("first_arg", expr, 1, Top.o)>>
                         \o Tail(ctl)
               /\ UNCHANGED <<diagnostics, sites, skipped>>

\* fold_call_expr, lines 227-478: argument 0 is back; the flag is cleared,
\* the specifier taken and, if there is one, the call rewritten
fold_call_expr_rewrite ==
    /\ Waiting("first_arg")
    /\ ctl' = Tail(ctl)
    /\ UNCHANGED <<config, dynamic_bindings, diagnostics, output, lists, skipped>>
    /\ LET expr == [Top.n EXCEPT !.args[1] = Popped(1)[1]]
           taken == dynamically_imported_specifier
           gen == generated(taken.value, taken.span)
           wrapped == wraps_loader(expr)
           loader == IF wrapped
                     THEN [expr EXCEPT !.args[1] = side_effect_free_loader_arg(expr.args[1])]
                     ELSE expr
           out == with_second_arg(loader, ObjectLit(merged_props(gen.props, expr)))
       IN /\ is_next_dynamic_first_arg' = FALSE
          /\ dynamically_imported_specifier' = take(dynamically_imported_specifier)
          /\ IF taken = None
             THEN /\ vals' = Append(Below(1), expr)
                  /\ UNCHANGED <<state, added_nextjs_pure_import, marks>>
                  /\ sites' = Append(sites, Site(Top.o, Top.n, expr, None))
             ELSE /\ state' = IF state.kind = "Turbopack"
                              THEN [state EXCEPT !.imports = push_import(@, gen.queued)]
                              ELSE state
                  /\ marks' = gen.marks
                  /\ added_nextjs_pure_import' =
                         pure_import_flag(added_nextjs_pure_import, wrapped)
                  /\ vals' = Append(Below(1), out)
                  /\ sites' = Append(sites, Site(Top.o, Top.n, out, taken))

\* the default fold of every other node: a leaf is its own result
fold_children ==
    /\ Visiting({"Ident", "Str", "Bool", "Import", "Tpl", "Arrow", "BlockStmt", "ExprStmt",
                 "Object", "KeyValue", "Spread", "Shorthand", "Method", "Array", "Bin",
                 "Member",
                 "TsModule"})
    /\ IF Children(Top.n) = <<>>
       THEN /\ vals' = Append(vals, Top.n)
            /\ ctl' = Tail(ctl)
       ELSE /\ ctl' = FoldAll(Children(Top.n))
                      \o <<Frame("fold_children", Top.n, Len(Children(Top.n)), None)>>
                      \o Tail(ctl)
            /\ UNCHANGED vals
    /\ UNCHANGED <<config, patcher, output, sites, lists, skipped>>

\* the default fold returns the node with its folded children
fold_children_return ==
    /\ Waiting("fold_children")
    /\ vals' = Append(Below(Top.c), Rebuild(Top.n, Popped(Top.c)))
    /\ ctl' = Tail(ctl)
    /\ UNCHANGED <<config, patcher, output, sites, lists, skipped>>

Next ==
    \/ fold_module
    \/ fold_module_return
    \/ fold_module_items
    \/ fold_module_items_return
    \/ fold_import_decl
    \/ fold_call_expr_first_arg
    \/ fold_call_expr
    \/ fold_call_expr_validate
    \/ fold_call_expr_rewrite
    \/ fold_children
    \/ fold_children_return

(***************************************************************************)
(* The modules the pass is run on.  Every call site has its own span (the  *)
(* span of its callee), as in a parsed file; `dynamic` with ctxt 1 is the  *)
(* module-level binding and ctxt 2 a same-named binding of another scope.  *)
(***************************************************************************)
SeqsUpTo(S, n) == UNION {[1..k -> S] : k \in 0..n}

dynamic(span) == Ident("dynamic", 1, span)

\* dynamic(args) at call site `span`
DynamicCall(span, args) == CallExpr(dynamic(span), args)

\* import(arg)
ImportOf(arg) == CallExpr(ImportCallee, <<arg>>)

Quasi(raw, span) == [raw |-> raw, span |-> span]

\* () => import('./a')
LoaderStr(s) == ArrowExpr(FALSE, ImportOf(Str("./a", s + 1)))

\* () => import(`./b`)
LoaderTpl(s) == ArrowExpr(FALSE, ImportOf(Tpl(<<Quasi("./b", s + 1)>>, <<>>)))

\* () => import(`./${name}`)
LoaderInterpolated(s) ==
    ArrowExpr(FALSE, ImportOf(Tpl(<<Quasi("./", s + 1), Quasi("", s + 1)>>,
                                   <<Ident("name", 1, s + 1)>>)))

\* () => import(path)
LoaderComputed(s) == ArrowExpr(FALSE, ImportOf(Ident("path", 1, s + 1)))

\* Hello
LoaderPlain(s) == Ident("Hello", 1, s + 1)

\* () => dynamic(() => import('./a'))
LoaderNested(s) == ArrowExpr(FALSE, DynamicCall(s + 2, <<LoaderStr(s + 2)>>))

\* () => dynamic()
LoaderNestedInvalid(s) == ArrowExpr(FALSE, DynamicCall(s + 2, <<>>))

\* import('./a'), import(`./b`) and import(path) at places of their own
ImportA(span) == ImportOf(Str("./a", span))

ImportB(span) == ImportOf(Tpl(<<Quasi("./b", span)>>, <<>>))

ImportPath(span) == ImportOf(Ident("path", 1, span))

\* () => [first, second]: loaders with two dynamic imports, or with a
\* dynamic import beside a loader call
LoaderPairs(s) ==
    {ArrowExpr(FALSE, ArrayLit(pair)) :
        pair \in {<<ImportA(s + 1), ImportB(s + 8)>>,
                  <<ImportA(s + 1), ImportPath(s + 8)>>,
                  <<ImportPath(s + 1), ImportB(s + 8)>>,
                  <<ImportPath(s + 1), ImportPath(s + 8)>>,
                  <<ImportB(s + 8), DynamicCall(s + 2, <<LoaderStr(s + 2)>>)>>,
                  <<DynamicCall(s + 2, <<LoaderStr(s + 2)>>), ImportB(s + 8)>>}}

Loaders(s) ==
    {LoaderStr(s), LoaderTpl(s), LoaderInterpolated(s), LoaderComputed(s), LoaderPlain(s),
     LoaderNested(s), LoaderNestedInvalid(s)}
    \cup LoaderPairs(s)

CoreLoaders(s) == {LoaderStr(s), LoaderComputed(s), LoaderNested(s)}

SsrFalse == KeyValueProp("Ident", "ssr", Bool(FALSE))

SsrTrue == KeyValueProp("Ident", "ssr", Bool(TRUE))

Loading == KeyValueProp("Ident", "loading", Ident("Spinner", 1, DUMMY_SP))

CoreProps == {SsrFalse, SsrTrue, Loading}

\* { loading: () => dynamic(() => import('./a')) }: a loader call in the options
LoadingNested(s) ==
    KeyValueProp("Ident", "loading", ArrowExpr(FALSE, DynamicCall(s + 4, <<LoaderStr(s + 4)>>)))

OtherProps(s) ==
    {<<KeyValueProp("Str", "ssr", Bool(FALSE))>>,
     <<SpreadProp(Ident("opts", 1, DUMMY_SP))>>,
     <<ShorthandProp("ssr")>>,
     <<KeyValueProp("Ident", "ssr", Ident("flag", 1, DUMMY_SP))>>,
     <<LoadingNested(s)>>,
     <<LoadingNested(s), SsrFalse>>,
     <<KeyValueProp("Ident", "ssr", Str("false", DUMMY_SP))>>,
     <<MethodProp("ssr", BlockStmt(<<>>))>>,
     <<SpreadProp(ObjectLit(<<SsrFalse>>))>>,
     <<KeyValueProp("Str", "ssr", Bool(FALSE)), ShorthandProp("ssr")>>,
     <<SpreadProp(ObjectLit(<<SsrTrue>>)), SsrFalse>>,
     <<SsrFalse, KeyValueProp("Ident", "ssr", Ident("flag", 1, DUMMY_SP))>>}

Options(s) == {ObjectLit(ps) : ps \in SeqsUpTo(CoreProps, MaxProps) \cup OtherProps(s)}

\* second arguments that are no object literal
NotObjects(s) ==
    {Ident("options", 1, DUMMY_SP), Str("ssr", DUMMY_SP),
     DynamicCall(s + 6, <<LoaderStr(s + 6)>>)}

\* the i-th argument after the first two: a plain identifier, or a loader
\* call at a call site of its own
Extra(s, i, nested) ==
    IF nested THEN DynamicCall(s + 5 + i, <<LoaderTpl(s + 5 + i)>>)
    ELSE Ident("extra", 1, DUMMY_SP)

TooMany(s) ==
    UNION {{<<l, o>> \o [i \in 1..k |-> Extra(s, i, nested[i])] :
              l \in {LoaderStr(s), LoaderNested(s), LoaderNestedInvalid(s)},
              o \in {ObjectLit(<<SsrFalse>>)},
              nested \in [1..k -> BOOLEAN]} : k \in 1..(MaxArgs - 2)}

\* the argument lists of a loader call at call site s
ArgLists(s) ==
    {<<>>}
    \cup {<<l>> : l \in Loaders(s)}
    \cup {<<l, ObjectLit(<<SsrFalse>>)>> : l \in Loaders(s)}
    \cup {<<l, o>> : l \in CoreLoaders(s), o \in Options(s)}
    \cup {<<l, o>> : l \in {LoaderStr(s), LoaderNested(s)}, o \in NotObjects(s)}
    \cup TooMany(s)

ImportDynamic == ImportDecl("next/dynamic", <<ImportSpecifier("Default", dynamic(1), "")>>)

\* import dynamic from 'next/dynamic'; dynamic(args)
SingleCallModules ==
    {Module(Items(<<ImportDynamic, ExprStmt(DynamicCall(10, args))>>)) : args \in ArgLists(10)}

\* calls that the binding does not reach, and imports that bind nothing
OtherCallees ==
    {Ident("dynamic", 2, 10), Ident("lazy", 1, 10),
     MemberExpr(Ident("next", 1, 10), "dynamic")}

OtherImports ==
    {ImportDecl("next/dynamic", <<ImportSpecifier("Named", dynamic(1), "dynamic")>>),
     ImportDecl("next/dynamic", <<ImportSpecifier("Namespace", dynamic(1), "")>>),
     ImportDecl("react", <<ImportSpecifier("Default", dynamic(1), "")>>)}

UntrackedModules ==
    {Module(Items(<<ImportDynamic, ExprStmt(CallExpr(c, args))>>)) :
        c \in OtherCallees, args \in {<<>>, <<LoaderStr(10)>>}}
    \cup {Module(Items(<<d, ExprStmt(DynamicCall(10, <<LoaderStr(10)>>))>>)) :
        d \in OtherImports}
    \cup {Module(Items(<<ExprStmt(DynamicCall(10, <<LoaderStr(10)>>)), ImportDynamic,
                         ExprStmt(DynamicCall(20, <<LoaderTpl(20)>>))>>))}

\* the statements of a module with several call sites
StmtKinds == {"str", "ssr", "computed", "invalid"}

StmtAt(k, i) ==
    CASE k = "str" -> ExprStmt(DynamicCall(10 * i, <<LoaderStr(10 * i)>>))
      [] k = "ssr" -> ExprStmt(DynamicCall(10 * i,
                          <<LoaderTpl(10 * i), ObjectLit(<<SsrFalse>>)>>))
      [] k = "computed" -> ExprStmt(DynamicCall(10 * i, <<LoaderComputed(10 * i)>>))
      [] OTHER -> ExprStmt(DynamicCall(10 * i, <<>>))

SeveralCallModules ==
    UNION {{Module(Items(<<ImportDynamic>> \o [i \in 1..n |-> StmtAt(ks[i], i)])) :
              ks \in [1..n -> StmtKinds]} : n \in 2..MaxStmts}

\* a rejected call between two valid ones
RejectedBetweenModules ==
    {Module(Items(<<ImportDynamic, StmtAt("str", 1), ExprStmt(DynamicCall(20, args)),
                    StmtAt("ssr", 3)>>)) :
        args \in {<<>>, <<LoaderStr(20), Str("options", 21)>>}}

\* a call before, in and after a TS namespace block
NamespaceModules ==
    {Module(Items(<<ImportDynamic, StmtAt(a, 1),
                    TsModule("N", Items(inner)),
                    StmtAt("ssr", 3)>>)) :
        a \in StmtKinds,
        inner \in {<<>>, <<StmtAt("str", 2)>>, <<ExprStmt(Str("use strict", DUMMY_SP))>>}}

lazy(span) == Ident("lazy", 1, span)

\* import dynamic, { lazy } from 'next/dynamic'
ImportBoth ==
    ImportDecl("next/dynamic", <<ImportSpecifier("Default", dynamic(1), ""),
                                 ImportSpecifier("Named", lazy(2), "lazy")>>)

\* import declarations that bind `dynamic`, `lazy`, both or neither
BindingDecls ==
    {ImportDynamic, ImportBoth,
     ImportDecl("next/dynamic", <<ImportSpecifier("Default", lazy(2), "")>>),
     ImportDecl("next/dynamic", <<ImportSpecifier("Named", lazy(2), "lazy")>>),
     ImportDecl("react", <<ImportSpecifier("Default", lazy(2), "")>>)}

\* two import declarations with calls through `lazy` and `dynamic` between
\* and after them
BindingModules ==
    {Module(Items(<<d1, ExprStmt(CallExpr(lazy(10), <<LoaderStr(10)>>)),
                    d2, ExprStmt(DynamicCall(20, <<LoaderTpl(20)>>)),
                    ExprStmt(CallExpr(lazy(30), <<LoaderStr(30)>>))>>)) :
        d1, d2 \in BindingDecls}

Modules ==
    SingleCallModules \cup UntrackedModules \cup SeveralCallModules \cup NamespaceModules
    \cup BindingModules \cup RejectedBetweenModules

Init ==
    /\ is_development \in BOOLEAN
    /\ is_server \in BOOLEAN
    /\ is_rsc_server_layer \in BOOLEAN
    /\ state \in {Webpack, Turbopack("next-dynamic", <<>>)}
    /\ pages_dir = UnixPath(TRUE, <<"project", "pages">>)
    /\ filename = Real(UnixPath(TRUE, <<"project", "pages", "about.js">>))
    /\ input \in Modules
    /\ dynamic_bindings = <<>>
    /\ is_next_dynamic_first_arg = FALSE
    /\ dynamically_imported_specifier = None
    /\ added_nextjs_pure_import = FALSE
    /\ diagnostics = <<>>
    /\ marks = 2
    /\ ctl = <<Fold(input)>>
    /\ vals = <<>>
    /\ output = None
    /\ sites = <<>>
    /\ lists = <<>>
    /\ pass = 1
    /\ skipped = <<>>

Spec == Init /\ [][Next]_vars

\* the fold is one synchronous traversal with no suspension point: as long
\* as a step is left, one is taken
SpecLive == Init /\ [][Next]_vars /\ WF_vars(Next)

(***************************************************************************)
(* The pass run a second time on its own output: next_dynamic (lines       *)
(* 28-56) constructs a new patcher from the same configuration, and the    *)
(* module the first patcher returned is folded by it.  The diagnostics     *)
(* handler and the mark counter are global and go on.                      *)
(***************************************************************************)
next_dynamic ==
    /\ ctl = <<>>
    /\ output # None
    /\ pass = 1
    /\ pass' = 2
    /\ input' = output
    /\ dynamic_bindings' = <<>>
    /\ is_next_dynamic_first_arg' = FALSE
    /\ dynamically_imported_specifier' = None
    /\ added_nextjs_pure_import' = FALSE
    /\ state' = IF state.kind = "Turbopack"
                THEN Turbopack(state.dynamic_transition_name, <<>>)
                ELSE Webpack
    /\ ctl' = <<Fold(output)>>
    /\ vals' = <<>>
    /\ output' = None
    /\ UNCHANGED <<is_development, is_server, is_rsc_server_layer, pages_dir, filename,
                   diagnostics, marks, sites, lists, skipped>>

NextTwice == Next \/ next_dynamic

SpecTwice == Init /\ [][NextTwice]_vars

(***************************************************************************)
(* The pass in simple mode under the pages directories and file names      *)
(* rel_filename is given: no directory or one, absolute or relative, with  *)
(* Unix or Windows path syntax; a real path below, beside or outside the   *)
(* directory, on its drive or another, or a name that is no path.          *)
(***************************************************************************)
UnixBases ==
    {UnixPath(TRUE, <<"project", "pages">>), UnixPath(TRUE, <<"project">>),
     UnixPath(TRUE, <<"other", "app">>), UnixPath(FALSE, <<"pages">>),
     UnixPath(FALSE, <<".", "pages">>), UnixPath(FALSE, <<"..", "pages">>)}

UnixFiles ==
    {Real(UnixPath(TRUE, <<"project", "pages", "about.js">>)),
     Real(UnixPath(TRUE, <<"project", "pages", "blog", "post.js">>)),
     Real(UnixPath(TRUE, <<"project", "lib", "util.js">>)),
     Real(UnixPath(TRUE, <<"project", "pages">>)),
     Real(UnixPath(FALSE, <<"pages", "about.js">>)),
     Real(UnixPath(FALSE, <<"about.js">>)),
     Real(UnixPath(FALSE, <<"..", "pages", "about.js">>))}

WindowsBases ==
    {WindowsPath("C:", TRUE, <<"project", "pages">>), WindowsPath("", FALSE, <<"pages">>)}

WindowsFiles ==
    {Real(WindowsPath("C:", TRUE, <<"project", "pages", "about.js">>)),
     Real(WindowsPath("D:", TRUE, <<"lib", "util.js">>)),
     Real(WindowsPath("", FALSE, <<"pages", "about.js">>))}

OpaqueFiles == {Custom("virtual"), Anon}

\* the (pages_dir, filename) pairs of one platform
Locations ==
    ((UnixBases \cup {None}) \X (UnixFiles \cup OpaqueFiles))
    \cup ((WindowsBases \cup {None}) \X (WindowsFiles \cup OpaqueFiles))

InitRel ==
    /\ is_development \in BOOLEAN
    /\ is_server \in BOOLEAN
    /\ is_development \/ is_server
    /\ is_rsc_server_layer = FALSE
    /\ state = Webpack
    /\ \E l \in Locations : pages_dir = l[1] /\ filename = l[2]
    /\ input = Module(Items(<<ImportDynamic, ExprStmt(DynamicCall(10, <<LoaderStr(10)>>))>>))
    /\ dynamic_bindings = <<>>
    /\ is_next_dynamic_first_arg = FALSE
    /\ dynamically_imported_specifier = None
    /\ added_nextjs_pure_import = FALSE
    /\ diagnostics = <<>>
    /\ marks = 2
    /\ ctl = <<Fold(input)>>
    /\ vals = <<>>
    /\ output = None
    /\ sites = <<>>
    /\ lists = <<>>
    /\ pass = 1
    /\ skipped = <<>>

SpecRel == InitRel /\ [][Next]_vars

(***************************************************************************)
(* Two runs side by side.  Once a first run has returned, next_dynamic     *)
(* (lines 28-56) is called again with the same build tool, development     *)
(* flag, server flag, pages directory and file name, with either value of  *)
(* the server-component-layer flag, on the module with the options of its   *)
(* top-level loader calls replaced.  It is a run of its own: the marks      *)
(* start again.  `sites` keeps the records of both runs.                    *)
(***************************************************************************)
\* the options the second run may give to the calls: none, `{}`,
\* `{ ssr: false }`, `{ loading: Spinner, ssr: true }`
OptionVariants ==
    {<<>>, <<ObjectLit(<<>>)>>, <<ObjectLit(<<SsrFalse>>)>>, <<ObjectLit(<<Loading, SsrTrue>>)>>}

\* the module with `options` behind argument 0 of every top-level call
\* that has one or two arguments
with_options(m, options) ==
    Module(Items([k \in 1..Len(m.body.items) |->
        LET item == m.body.items[k]
        IN IF /\ item.kind = "ExprStmt"
              /\ item.expr.kind = "Call"
              /\ Len(item.expr.args) \in {1, 2}
           THEN ExprStmt([item.expr EXCEPT !.args = <<@[1]>> \o options])
           ELSE item]))

next_dynamic_variant ==
    /\ ctl = <<>>
    /\ output # None
    /\ pass = 1
    /\ pass' = 2
    /\ is_rsc_server_layer' \in BOOLEAN
    /\ \E options \in OptionVariants : input' = with_options(input, options)
    /\ dynamic_bindings' = <<>>
    /\ is_next_dynamic_first_arg' = FALSE
    /\ dynamically_imported_specifier' = None
    /\ added_nextjs_pure_import' = FALSE
    /\ state' = IF state.kind = "Turbopack"
                THEN Turbopack(state.dynamic_transition_name, <<>>)
                ELSE Webpack
    /\ marks' = 2
    /\ ctl' = <<Fold(input')>>
    /\ vals' = <<>>
    /\ output' = None
    /\ UNCHANGED <<is_development, is_server, pages_dir, filename, diagnostics, sites,
                   lists, skipped>>

\* one loader call with a literal import, with and without `ssr: false`,
\* and the modules with several call sites
PairModules ==
    {Module(Items(<<ImportDynamic, ExprStmt(DynamicCall(10, <<l>> \o o))>>)) :
        l \in {LoaderStr(10), LoaderTpl(10), LoaderNested(10)},
        o \in {<<>>, <<ObjectLit(<<SsrFalse>>)>>}}
    \cup SeveralCallModules

InitPair ==
    /\ is_development \in BOOLEAN
    /\ is_server \in BOOLEAN
    /\ is_rsc_server_layer \in BOOLEAN
    /\ state \in {Webpack, Turbopack("next-dynamic", <<>>)}
    /\ pages_dir = UnixPath(TRUE, <<"project", "pages">>)
    /\ filename = Real(UnixPath(TRUE, <<"project", "pages", "about.js">>))
    /\ input \in PairModules
    /\ dynamic_bindings = <<>>
    /\ is_next_dynamic_first_arg = FALSE
    /\ dynamically_imported_specifier = None
    /\ added_nextjs_pure_import = FALSE
    /\ diagnostics = <<>>
    /\ marks = 2
    /\ ctl = <<Fold(input)>>
    /\ vals = <<>>
    /\ output = None
    /\ sites = <<>>
    /\ lists = <<>>
    /\ pass = 1
    /\ skipped = <<>>

NextPair == Next \/ next_dynamic_variant

SpecPair == InitPair /\ [][NextPair]_vars

(***************************************************************************)
(* Vocabulary of the properties.  These read the syntax trees directly     *)
(* and do not use the operators of the pass.                               *)
(***************************************************************************)
SiteIds == 1..Len(sites)

\* the pass has returned the folded module
Finished == ctl = <<>> /\ output # None

\* the pass cannot stop before it has returned
Completes == Finished \/ ENABLED Next

\* the node is, or contains, a call whose callee is one of the bindings
RECURSIVE ContainsLoaderCall(_, _)
ContainsLoaderCall(n, bindings) ==
    \/ /\ n.kind = "Call"
       /\ n.callee.kind = "Ident"
       /\ <<n.callee.sym, n.callee.ctxt>> \in Range(bindings)
    \/ \E i \in 1..Len(Children(n)) : ContainsLoaderCall(Children(n)[i], bindings)

\* the node is, or contains, import('...') or import(`...`) without interpolation
RECURSIVE ContainsLiteralImport(_)
ContainsLiteralImport(n) ==
    \/ /\ n.kind = "Call"
       /\ n.callee.kind = "Import"
       /\ \/ n.args[1].kind = "Str"
          \/ n.args[1].kind = "Tpl" /\ n.args[1].exprs = <<>>
    \/ \E i \in 1..Len(Children(n)) : ContainsLiteralImport(Children(n)[i])

\* the diagnostics reported at a span
DiagnosticsAt(span) == {i \in 1..Len(diagnostics) : diagnostics[i].span = span}

\* the call has no argument or more than two
ArityCase(call) == Len(call.args) = 0 \/ Len(call.args) > 2

\* the call has two arguments and the second is no object literal
ShapeCase(call) == Len(call.args) = 2 /\ call.args[2].kind # "Object"

\* the call has one argument, or two with an object literal second
WellFormed(call) == ~ArityCase(call) /\ ~ShapeCase(call)

\* the call's options hold a property `ssr: false`
OptionsSsrFalse(call) ==
    /\ Len(call.args) = 2
    /\ call.args[2].kind = "Object"
    /\ \E i \in 1..Len(call.args[2].props) :
          LET p == call.args[2].props[i]
          IN /\ p.kind = "KeyValue"
             /\ p.key = [kind |-> "Ident", sym |-> "ssr"]
             /\ p.value = [kind |-> "Bool", value |-> FALSE]

\* a is `async () => { __nextjs_pure(loader) }`
IsPureWrapper(a, loader) ==
    /\ a.kind = "Arrow"
    /\ a.is_async
    /\ a.params = <<>>
    /\ a.body.kind = "BlockStmt"
    /\ Len(a.body.stmts) = 1
    /\ a.body.stmts[1].kind = "ExprStmt"
    /\ a.body.stmts[1].expr.kind = "Call"
    /\ a.body.stmts[1].expr.callee.kind = "Ident"
    /\ a.body.stmts[1].expr.callee.sym = "__nextjs_pure"
    /\ a.body.stmts[1].expr.args = <<loader>>

\* the object literal carries a `loadableGenerated` property
HasLoadableGenerated(obj) ==
    /\ obj.kind = "Object"
    /\ \E i \in 1..Len(obj.props) :
          /\ obj.props[i].kind = "KeyValue"
          /\ obj.props[i].key.sym = "loadableGenerated"

\* the step that decided the site left the queue, the pure-call flag and
\* the diagnostics as they were
QueuedNothing(s) == s.queue_after = s.queue_before

FlagUntouched(s) == s.pure_after = s.pure_before

(***************************************************************************)
(* C1, as claimed: a loader call with no argument or with more than two    *)
(* arguments leaves the pass with the very arguments it came in with,      *)
(* whatever they contain, and earns exactly one diagnostic.                *)
(***************************************************************************)
C1_AsClaimed ==
    \A i \in SiteIds :
        ArityCase(sites[i].input) =>
            /\ sites[i].output = sites[i].input
            /\ Cardinality(DiagnosticsAt(sites[i].span)) = 1

(***************************************************************************)
(* C1, amended: a loader call with no argument or with more than two       *)
(* arguments is returned as the fold of its children left it: same callee, *)
(* same number of arguments, every argument that contains no call through  *)
(* a tracked binding identical to the input (a loader call nested in an    *)
(* argument is still rewritten); the call itself gets no metadata, queues  *)
(* nothing and does not touch the pure-call flag; exactly one diagnostic,  *)
(* the arity message, is reported at its callee; and the pass goes on      *)
(* until it has returned the module.                                       *)
(***************************************************************************)
C1_ArityRejected ==
    \A i \in SiteIds :
        LET s == sites[i]
        IN ArityCase(s.input) =>
            /\ s.output = s.visited
            /\ s.output.callee = s.input.callee
            /\ Len(s.output.args) = Len(s.input.args)
            /\ \A j \in 1..Len(s.input.args) :
                  ~ContainsLoaderCall(s.input.args[j], s.bindings)
                      => s.output.args[j] = s.input.args[j]
            /\ Cardinality(DiagnosticsAt(s.span)) = 1
            /\ s.diags_after = s.diags_before + 1
            /\ diagnostics[s.diags_after] =
                  [span |-> s.span,
                   message |-> IF Len(s.input.args) = 0
                               THEN "next/dynamic requires at least one argument"
                               ELSE "next/dynamic only accepts 2 arguments"]
            /\ QueuedNothing(s)
            /\ FlagUntouched(s)
            /\ Completes

\* a call with more than two arguments, one of them holding a loader call
\* that was rewritten, has been rejected and the pass has returned
C1_Witness ==
    /\ Finished
    /\ \E i \in SiteIds :
          /\ Len(sites[i].input.args) > 2
          /\ sites[i].output # sites[i].input
          /\ Cardinality(DiagnosticsAt(sites[i].span)) = 1

(***************************************************************************)
(* C2: a loader call with exactly two arguments whose second is no object  *)
(* literal earns exactly one diagnostic, the options-shape message; it     *)
(* gets no loadableGenerated metadata, its first argument is not wrapped,  *)
(* it queues no pending import and it does not set the pure-call flag.     *)
(***************************************************************************)
C2_ShapeRejected ==
    \A i \in SiteIds :
        LET s == sites[i]
        IN ShapeCase(s.input) =>
            /\ Cardinality(DiagnosticsAt(s.span)) = 1
            /\ s.diags_after = s.diags_before + 1
            /\ diagnostics[s.diags_after] =
                  [span |-> s.span,
                   message |-> "next/dynamic options must be an object literal.\nRead more: https://nextjs.org/docs/messages/invalid-dynamic-options-type"]
            /\ Len(s.output.args) = 2
            /\ s.output.args[2] = s.visited.args[2]
            /\ ~HasLoadableGenerated(s.output.args[2])
            /\ s.output.args[1] = s.visited.args[1]
            /\ ~IsPureWrapper(s.output.args[1], s.visited.args[1])
            /\ QueuedNothing(s)
            /\ FlagUntouched(s)

\* on the server, outside the server-component layer and in chunked mode,
\* a call with a literal loader and a non-object second argument was rejected
C2_Witness ==
    /\ Finished
    /\ state.kind = "Turbopack"
    /\ is_server
    /\ ~is_rsc_server_layer
    /\ \E i \in SiteIds :
          /\ ShapeCase(sites[i].input)
          /\ ContainsLiteralImport(sites[i].input.args[1])
          /\ Cardinality(DiagnosticsAt(sites[i].span)) = 1

\* the call passes the arity and shape checks and a literal specifier is
\* found in its first argument: the call is rewritten
Rewritable(call) == WellFormed(call) /\ ContainsLiteralImport(call.args[1])

\* the records the step that decided the site added to the queue
QueuedBy(s) == SubSeq(s.queue_after, Len(s.queue_before) + 1, Len(s.queue_after))

\* the records queued by the sites from the i-th on, in the order the
\* sites were decided
RECURSIVE QueuedFrom(_)
QueuedFrom(i) == IF i > Len(sites) THEN <<>> ELSE QueuedBy(sites[i]) \o QueuedFrom(i + 1)

\* the shape the configuration asks of a queued record
ShapeFor(development, server) ==
    CASE development /\ server -> "DevelopmentTransition"
      [] development /\ ~server -> "DevelopmentId"
      [] ~development /\ server -> "BuildTransition"
      [] OTHER -> "BuildId"

\* the import declaration binds a private identifier of the pass
IsInjectedImport(item) ==
    /\ item.kind = "ImportDecl"
    /\ item.specifiers[1].local.sym = "id"
    /\ item.specifiers[1].local.ctxt > 2

\* the private identifiers bound by the injected imports among the items
InjectedIds(items) ==
    LET decls == SelectSeq(items, IsInjectedImport)
    IN [k \in 1..Len(decls) |-> decls[k].specifiers[1].local]

\* every rewritten site has queued exactly one record, of the shape the
\* configuration asks for
OneRecordPerRewrite ==
    \A i \in SiteIds :
        Rewritable(sites[i].input) =>
            /\ Len(QueuedBy(sites[i])) = 1
            /\ sites[i].queue_after = sites[i].queue_before \o QueuedBy(sites[i])
            /\ QueuedBy(sites[i])[1].kind = ShapeFor(is_development, is_server)
            /\ (QueuedBy(sites[i])[1].kind = "DevelopmentTransition"
                    <=> "chunks_ident" \in DOMAIN QueuedBy(sites[i])[1])

(***************************************************************************)
(* C3, as claimed: in chunked mode every rewritten loader call queues      *)
(* exactly one PendingImport record, of the shape fixed by (development,   *)
(* server), and once the pass has returned the imports prepended to the    *)
(* module bind, one per queued record and in call-site order, the          *)
(* identifiers of all queued records, also of call sites that lie before   *)
(* or inside a nested module-item list.                                    *)
(***************************************************************************)
C3_AsClaimed ==
    state.kind = "Turbopack" =>
        /\ OneRecordPerRewrite
        /\ Finished =>
              InjectedIds(output.body.items)
                  = [k \in 1..Len(QueuedFrom(1)) |-> QueuedFrom(1)[k].id_ident]

\* the import declarations of a tree, nested module-item lists included
RECURSIVE ImportDeclsOf(_)
RECURSIVE ImportDeclsOfAll(_, _)
ImportDeclsOf(n) ==
    IF n.kind = "ImportDecl" THEN <<n>> ELSE ImportDeclsOfAll(Children(n), 1)

ImportDeclsOfAll(ns, i) ==
    IF i > Len(ns) THEN <<>> ELSE ImportDeclsOf(ns[i]) \o ImportDeclsOfAll(ns, i + 1)

\* the positions at which a sequence holds a value
Positions(seq, v) == {k \in 1..Len(seq) : seq[k] = v}

\* the injector runs that found the record in the queue
ConsumedBy(r) == {j \in 1..Len(lists) : Positions(lists[j].imports, r) # {}}

\* the import declarations of the returned module that bind the identifier
BoundIn(m, id) ==
    LET decls == ImportDeclsOf(m)
    IN {k \in 1..Len(decls) :
           \E j \in 1..Len(decls[k].specifiers) : decls[k].specifiers[j].local = id}

(***************************************************************************)
(* C4: every PendingImport record that is queued is consumed by the        *)
(* import injector exactly once: at every moment it is either still in     *)
(* the queue, once, or was found there by exactly one injector run, never  *)
(* both; every injector run leaves the queue empty; and when the pass has  *)
(* returned the queue is empty and each queued identifier is bound by      *)
(* exactly one import declaration of the module.                           *)
(***************************************************************************)
C4_ConsumedOnce ==
    /\ \A k \in 1..Len(QueuedFrom(1)) :
          LET r == QueuedFrom(1)[k]
          IN /\ Cardinality(Positions(Queue(state), r)) + Cardinality(ConsumedBy(r)) = 1
             /\ \A j \in ConsumedBy(r) : Cardinality(Positions(lists[j].imports, r)) = 1
             /\ Finished => Cardinality(BoundIn(output, r.id_ident)) = 1
    /\ \A j \in 1..Len(lists) : lists[j].left = <<>>
    /\ Finished => Queue(state) = <<>>

\* the pass has returned after two injector runs that each found records
C4_Witness ==
    /\ Finished
    /\ Len(QueuedFrom(1)) >= 2
    /\ \E i, j \in 1..Len(lists) :
          i # j /\ lists[i].imports # <<>> /\ lists[j].imports # <<>>

(***************************************************************************)
(* C5: on every module-item list the injector runs on, the statements it   *)
(* emits are one block ahead of all the already folded items of the list:  *)
(* a marker and an import declaration per queued record, in the order of   *)
(* the queue, followed by the list's items in their order, none removed    *)
(* and none duplicated.                                                    *)
(***************************************************************************)
C5_PrependedBlock ==
    \A j \in 1..Len(lists) :
        LET l == lists[j]
            n == Len(l.imports)
        IN /\ Len(l.result) = 2 * n + Len(l.items)
           /\ SubSeq(l.result, 2 * n + 1, Len(l.result)) = l.items
           /\ \A k \in 1..n :
                 /\ l.result[2 * k - 1].kind = "ExprStmt"
                 /\ l.result[2 * k - 1].expr.kind = "Str"
                 /\ l.result[2 * k].kind = "ImportDecl"
                 /\ l.result[2 * k].src = l.imports[k].specifier
                 /\ l.result[2 * k].specifiers[1].local = l.imports[k].id_ident

\* the injector has run on a list of several items with several records queued
C5_Witness ==
    \E j \in 1..Len(lists) :
        /\ Len(lists[j].imports) >= 2
        /\ Len(lists[j].items) >= 2
        /\ lists[j].imports[1] # lists[j].imports[2]

(***************************************************************************)
(* C6, as claimed: a loader call that passes the arity and shape checks,   *)
(* on the server, outside the server-component layer, with `ssr: false`    *)
(* in its options, ends with argument 0 being                              *)
(* `async () => { __nextjs_pure(<the original loader expression>) }`.      *)
(***************************************************************************)
C6_AsClaimed ==
    \A i \in SiteIds :
        LET s == sites[i]
        IN (WellFormed(s.input) /\ OptionsSsrFalse(s.input)
                /\ is_server /\ ~is_rsc_server_layer)
            => IsPureWrapper(s.output.args[1], s.input.args[1])

(***************************************************************************)
(* C6, amended: a loader call that passes the arity and shape checks and   *)
(* has a literal dynamic import in its argument 0, on the server, outside  *)
(* the server-component layer, with `ssr: false` in its options, ends with *)
(* argument 0 being a zero-parameter async function whose body is the one  *)
(* expression statement `__nextjs_pure(loader)`, where loader is argument  *)
(* 0 as the fold of its children left it: the original loader expression   *)
(* when that holds no call through a tracked binding.                      *)
(***************************************************************************)
C6_Wrapped ==
    \A i \in SiteIds :
        LET s == sites[i]
        IN (Rewritable(s.input) /\ OptionsSsrFalse(s.input)
                /\ is_server /\ ~is_rsc_server_layer)
            => /\ IsPureWrapper(s.output.args[1], s.visited.args[1])
               /\ ~ContainsLoaderCall(s.input.args[1], s.bindings)
                     => IsPureWrapper(s.output.args[1], s.input.args[1])

\* a loader was wrapped whose nested loader call had been rewritten, so
\* that the helper's argument is no longer the loader of the input
C6_Witness ==
    /\ is_server
    /\ ~is_rsc_server_layer
    /\ \E i \in SiteIds :
          /\ OptionsSsrFalse(sites[i].input)
          /\ IsPureWrapper(sites[i].output.args[1], sites[i].visited.args[1])
          /\ ~IsPureWrapper(sites[i].output.args[1], sites[i].input.args[1])

\* the import declarations of the pure-call helper among the module's items
HelperImports(m) ==
    {k \in 1..Len(m.body.items) :
        /\ m.body.items[k].kind = "ImportDecl"
        /\ m.body.items[k].src = "next/dist/build/swc/helpers"}

\* the sites whose loader was wrapped
WrappedSites ==
    {i \in SiteIds :
        /\ sites[i].output.args # <<>>
        /\ IsPureWrapper(sites[i].output.args[1], sites[i].visited.args[1])}

(***************************************************************************)
(* C7: the pure-call flag, once set, is never cleared by any step of the   *)
(* pass; and the returned module holds exactly one import of the           *)
(* pure-call helper if at least one call site was wrapped and none         *)
(* otherwise, however many call sites were wrapped.                        *)
(***************************************************************************)
C7_StickyFlag ==
    /\ [][added_nextjs_pure_import => added_nextjs_pure_import']_vars
    /\ [](Finished => /\ Cardinality(HelperImports(output))
                           = IF WrappedSites = {} THEN 0 ELSE 1
                      /\ Cardinality(BoundIn(output, [kind |-> "Ident", sym |-> "__nextjs_pure",
                                                       ctxt |-> 0, span |-> 0]))
                           = IF WrappedSites = {} THEN 0 ELSE 1)

\* the pass has returned a module in which a wrapped call site is followed
\* by a site that is not wrapped and by another wrapped one
C7_Witness ==
    /\ Finished
    /\ Cardinality(HelperImports(output)) = 1
    /\ \E i, j \in WrappedSites : i # j
    /\ \E i \in WrappedSites, j \in SiteIds \ WrappedSites : i < j

(***************************************************************************)
(* C8, as claimed: a loader call with `ssr: false` in its options that is  *)
(* compiled in the server-component layer, or for the client, ends with    *)
(* argument 0 identical to argument 0 on input, whatever argument 0        *)
(* holds, and does not set the pure-call flag.                             *)
(***************************************************************************)
C8_AsClaimed ==
    \A i \in SiteIds :
        LET s == sites[i]
        IN (OptionsSsrFalse(s.input) /\ (is_rsc_server_layer \/ ~is_server))
            => /\ s.output.args[1] = s.input.args[1]
               /\ FlagUntouched(s)

(***************************************************************************)
(* C8, amended: a loader call with `ssr: false` in its options that is     *)
(* compiled in the server-component layer, or for the client, ends with    *)
(* argument 0 as the fold of its children left it, never wrapped:          *)
(* identical to argument 0 on input when that holds no call through a      *)
(* tracked binding (a loader call nested in argument 0 is still            *)
(* rewritten); and the call site does not set the pure-call flag.          *)
(***************************************************************************)
C8_NotWrapped ==
    \A i \in SiteIds :
        LET s == sites[i]
        IN (OptionsSsrFalse(s.input) /\ (is_rsc_server_layer \/ ~is_server))
            => /\ s.output.args[1] = s.visited.args[1]
               /\ s.output.args[1].kind = s.input.args[1].kind
               /\ ~ContainsLoaderCall(s.input.args[1], s.bindings)
                     => s.output.args[1] = s.input.args[1]
               /\ FlagUntouched(s)

\* on the server, in the server-component layer, a rewritten call with
\* `ssr: false` has kept an argument 0 whose nested loader call was rewritten
C8_Witness ==
    /\ is_server
    /\ is_rsc_server_layer
    /\ \E i \in SiteIds :
          /\ OptionsSsrFalse(sites[i].input)
          /\ Rewritable(sites[i].input)
          /\ HasLoadableGenerated(sites[i].output.args[2])
          /\ sites[i].output.args[1] # sites[i].input.args[1]

(***************************************************************************)
(* C9: a loader call that passes the arity and shape checks and has no     *)
(* literal dynamic import in its argument 0 is left as a plain no-op: no   *)
(* diagnostic at its callee, no loadableGenerated property, the same       *)
(* number of arguments, nothing queued, argument 0 not wrapped and the     *)
(* pure-call flag untouched, also with `ssr: false` on the server.         *)
(***************************************************************************)
C9_SilentSkip ==
    \A i \in SiteIds :
        LET s == sites[i]
        IN (WellFormed(s.input) /\ ~ContainsLiteralImport(s.input.args[1]))
            => /\ DiagnosticsAt(s.span) = {}
               /\ s.diags_after = s.diags_before
               /\ Len(s.output.args) = Len(s.input.args)
               /\ \A j \in 1..Len(s.output.args) : s.output.args[j] = s.visited.args[j]
               /\ Len(s.output.args) = 2 => ~HasLoadableGenerated(s.output.args[2])
               /\ ~IsPureWrapper(s.output.args[1], s.visited.args[1])
               /\ QueuedNothing(s)
               /\ FlagUntouched(s)

\* in chunked mode, on the server and outside the server-component layer,
\* a call with `ssr: false` and a computed specifier was left alone
C9_Witness ==
    /\ Finished
    /\ state.kind = "Turbopack"
    /\ is_server
    /\ ~is_rsc_server_layer
    /\ \E i \in SiteIds :
          /\ OptionsSsrFalse(sites[i].input)
          /\ ~ContainsLiteralImport(sites[i].input.args[1])
          /\ sites[i].output.args[1].kind = "Arrow"

RECURSIVE LastLiteralImport(_, _)
RECURSIVE LastLiteralImportAll(_, _, _)
LastLiteralImport(n, found) ==
    LET here == IF n.kind = "Call" /\ n.callee.kind = "Import"
                THEN IF n.args[1].kind = "Str" THEN n.args[1].value
                     ELSE IF n.args[1].kind = "Tpl" /\ n.args[1].exprs = <<>>
                          THEN n.args[1].quasis[1].raw
                          ELSE found
                ELSE found
    IN LastLiteralImportAll(Children(n), 1, here)

LastLiteralImportAll(ns, i, found) ==
    IF i > Len(ns) THEN found
    ELSE LastLiteralImportAll(ns, i + 1, LastLiteralImport(ns[i], found))

\* the properties of the loadableGenerated object of a rewritten call
GeneratedProps(call) == call.args[2].props[1].value.props

\* the file of the configuration relative to its pages directory
RelativeFilename == "about.js"

\* `left + right` of two string literals
IsConcat(e, left, right) ==
    /\ e.kind = "Bin"
    /\ e.op = "+"
    /\ e.left.kind = "Str" /\ e.left.value = left
    /\ e.right.kind = "Str" /\ e.right.value = right

\* `require.resolveWeak(specifier)`
IsResolveWeak(e, specifier) ==
    /\ e.kind = "Call"
    /\ e.callee.kind = "Member"
    /\ e.callee.obj.kind = "Ident" /\ e.callee.obj.sym = "require"
    /\ e.callee.prop = "resolveWeak"
    /\ Len(e.args) = 1
    /\ e.args[1].kind = "Str" /\ e.args[1].value = specifier

\* the sequence without the occurrences of a value
RECURSIVE Without(_, _)
Without(seq, v) ==
    IF seq = <<>> THEN <<>>
    ELSE (IF Head(seq) = v THEN <<>> ELSE <<Head(seq)>>) \o Without(Tail(seq), v)

(***************************************************************************)
(* C11: in simple (Webpack) mode the metadata of every rewritten loader    *)
(* call is one property: `modules`, a one-element array holding            *)
(* "<relativeFilename> -> " + specifier, exactly when development or       *)
(* server is set, and `webpack`, a zero-parameter function (not async)     *)
(* returning a one-element array holding require.resolveWeak(specifier),   *)
(* exactly when neither is set; the patcher state stays the simple state,  *)
(* no injector run finds or emits anything, and the returned module has    *)
(* no import declaration the input did not have but the helper's.          *)
(***************************************************************************)
C11_SimpleMetadata ==
    state.kind = "Webpack" =>
        /\ state = [kind |-> "Webpack"]
        /\ \A j \in 1..Len(lists) :
               lists[j].imports = <<>> /\ lists[j].result = lists[j].items
        /\ Finished =>
               Without(ImportDeclsOf(output),
                       ImportDecl("next/dist/build/swc/helpers",
                           <<ImportSpecifier("Named", Ident("__nextjs_pure", 0, 0), "")>>))
                   = ImportDeclsOf(input)
        /\ \A i \in SiteIds :
               LET s == sites[i]
                   specifier == LastLiteralImport(s.visited.args[1], "")
                   g == GeneratedProps(s.output)
               IN Rewritable(s.input) =>
                   /\ QueuedNothing(s)
                   /\ Len(g) = 1
                   /\ g[1].kind = "KeyValue"
                   /\ g[1].key.kind = "Ident"
                   /\ (g[1].key.sym = "modules") <=> (is_development \/ is_server)
                   /\ (g[1].key.sym = "webpack") <=> (~is_development /\ ~is_server)
                   /\ g[1].key.sym = "modules" =>
                         /\ g[1].value.kind = "Array"
                         /\ Len(g[1].value.elems) = 1
                         /\ IsConcat(g[1].value.elems[1], RelativeFilename \o " -> ",
                                     specifier)
                   /\ g[1].key.sym = "webpack" =>
                         /\ g[1].value.kind = "Arrow"
                         /\ ~g[1].value.is_async
                         /\ g[1].value.params = <<>>
                         /\ g[1].value.body.kind = "Array"
                         /\ Len(g[1].value.body.elems) = 1
                         /\ IsResolveWeak(g[1].value.body.elems[1], specifier)

\* in simple mode, for the production client, a call with a template
\* specifier was given the `webpack` metadata and the pass has returned
C11_Witness ==
    /\ Finished
    /\ state.kind = "Webpack"
    /\ ~is_development
    /\ ~is_server
    /\ \E i \in SiteIds :
          /\ Rewritable(sites[i].input)
          /\ GeneratedProps(sites[i].output)[1].key.sym = "webpack"
          /\ LastLiteralImport(sites[i].input.args[1], "") = "./b"

\* the positions of the loadableGenerated properties of an object literal
LoadableGeneratedAt(obj) ==
    {k \in 1..Len(obj.props) :
        /\ obj.props[k].kind = "KeyValue"
        /\ obj.props[k].key.sym = "loadableGenerated"}

\* the sites decided by the p-th pass
SitesOf(p) == {i \in SiteIds : sites[i].pass = p}

\* the sites of the second pass at the call site of a site of the first
Again(i) == {j \in SitesOf(2) : sites[j].span = sites[i].span}

(***************************************************************************)
(* C12: the pass is not idempotent.  When the module a first pass returned *)
(* is folded again under the same configuration, every loader call the     *)
(* first pass rewrote comes in as the first pass left it, with one         *)
(* loadableGenerated property, is decided once more and leaves with        *)
(* exactly two: a new one ahead of the first pass's; so the module the     *)
(* second pass returns differs from its input whenever the first pass      *)
(* rewrote a call.                                                         *)
(***************************************************************************)
C12_NotIdempotent ==
    \A i \in SitesOf(1) :
        Rewritable(sites[i].input) =>
            /\ Cardinality(LoadableGeneratedAt(sites[i].output.args[2])) = 1
            /\ Cardinality(Again(i)) <= 1
            /\ \A j \in Again(i) :
                   /\ sites[j].input = sites[i].output
                   /\ Len(sites[j].output.args) = 2
                   /\ LoadableGeneratedAt(sites[j].output.args[2]) = {1, 2}
                   /\ sites[j].output.args[2].props[2] = sites[i].output.args[2].props[1]
            /\ (pass = 2 /\ Finished) =>
                   /\ Cardinality(Again(i)) = 1
                   /\ output # input

\* the second pass has returned a module in which two call sites, one of
\* them nested in the other's loader, carry two loadableGenerated properties
C12_Witness ==
    /\ pass = 2
    /\ Finished
    /\ \E j, k \in SitesOf(2) :
          /\ j # k
          /\ Rewritable(sites[j].input)
          /\ Rewritable(sites[k].input)
          /\ ContainsLoaderCall(sites[k].input.args[1], sites[k].bindings)
          /\ Cardinality(LoadableGeneratedAt(sites[j].output.args[2])) = 2
          /\ Cardinality(LoadableGeneratedAt(sites[k].output.args[2])) = 2

\* the (name, scope) pairs of the default specifiers of an import
\* declaration of next/dynamic; none for any other declaration
DefaultsOf(decl) ==
    IF decl.src = "next/dynamic"
    THEN LET defaults == SelectSeq(decl.specifiers, LAMBDA sp : sp.spec = "Default")
         IN [k \in 1..Len(defaults) |-> <<defaults[k].local.sym, defaults[k].local.ctxt>>]
    ELSE <<>>

RECURSIVE DefaultsOfAll(_)
DefaultsOfAll(decls) ==
    IF decls = <<>> THEN <<>> ELSE DefaultsOf(Head(decls)) \o DefaultsOfAll(Tail(decls))

(***************************************************************************)
(* C13: the tracked bindings only grow.  A step that visits an import      *)
(* declaration appends the local (name, scope) of each of its default      *)
(* specifiers when its source is next/dynamic, and nothing for named and   *)
(* namespace specifiers or for any other source; every other step of the   *)
(* pass, the rewriting of a call included, leaves the bindings as they     *)
(* are; and when the pass has returned, the bindings are those of the      *)
(* default specifiers of the next/dynamic imports of the input.            *)
(***************************************************************************)
C13_BindingsGrow ==
    /\ [][IF ctl # <<>> /\ Head(ctl).t = "fold" /\ Head(ctl).n.kind = "ImportDecl"
          THEN dynamic_bindings' = dynamic_bindings \o DefaultsOf(Head(ctl).n)
          ELSE dynamic_bindings' = dynamic_bindings]_vars
    /\ [](Finished => dynamic_bindings = DefaultsOfAll(ImportDeclsOf(input)))

\* the pass has returned with two bindings, taken from declarations of
\* which one also had a named specifier, and after rewriting a call
C13_Witness ==
    /\ Finished
    /\ Len(dynamic_bindings) = 2
    /\ dynamic_bindings[1] # dynamic_bindings[2]
    /\ \E k \in 1..Len(input.body.items) :
          /\ input.body.items[k].kind = "ImportDecl"
          /\ Len(input.body.items[k].specifiers) = 2
    /\ \E i \in SiteIds : Rewritable(sites[i].input) /\ Len(sites[i].bindings) = 2

\* the (name, scope) pairs a queued record asks an import to bind
BoundBy(r) ==
    {<<r.id_ident.sym, r.id_ident.ctxt>>}
    \cup (IF r.kind = "DevelopmentTransition"
          THEN {<<r.chunks_ident.sym, r.chunks_ident.ctxt>>} ELSE {})

\* the (name, scope) pairs an import declaration binds
LocalsOf(decl) ==
    {<<decl.specifiers[k].local.sym, decl.specifiers[k].local.ctxt>> :
        k \in 1..Len(decl.specifiers)}

\* `JSON.stringify({ id: <id>, chunks: <chunks> })`
IsStringify(e, id, chunks) ==
    /\ e.kind = "Call"
    /\ e.callee.kind = "Member"
    /\ e.callee.obj.sym = "JSON"
    /\ e.callee.prop = "stringify"
    /\ Len(e.args) = 1
    /\ e.args[1].kind = "Object"
    /\ Len(e.args[1].props) = 2
    /\ e.args[1].props[1].key.sym = "id" /\ e.args[1].props[1].value = id
    /\ e.args[1].props[2].key.sym = "chunks" /\ e.args[1].props[2].value = chunks

(***************************************************************************)
(* C14: in chunked mode the identifiers of the injected imports are        *)
(* unique.  No two queued records bind the same (name, scope), also when   *)
(* they import the same specifier found at the same place; the id and the  *)
(* chunks identifier of one record differ; the metadata of a rewritten     *)
(* call refers to the identifiers of the record that call queued, whose    *)
(* specifier is the call's; and in the returned module an injected import  *)
(* binds no (name, scope) that another import declaration binds, and the   *)
(* identifier of each record is bound by an import of the record's         *)
(* specifier.                                                              *)
(***************************************************************************)
C14_UniqueIdentifiers ==
    state.kind = "Turbopack" =>
        LET queued == QueuedFrom(1)
        IN /\ \A k, l \in 1..Len(queued) :
                  k # l => BoundBy(queued[k]) \cap BoundBy(queued[l]) = {}
           /\ \A k \in 1..Len(queued) :
                  queued[k].kind = "DevelopmentTransition" => Cardinality(BoundBy(queued[k])) = 2
           /\ \A i \in SiteIds :
                  LET s == sites[i]
                      r == QueuedBy(s)[1]
                      g == GeneratedProps(s.output)
                  IN Rewritable(s.input) =>
                      /\ Len(QueuedBy(s)) = 1
                      /\ r.specifier = LastLiteralImport(s.visited.args[1], "")
                      /\ Len(g) = 1
                      /\ g[1].key.sym = "modules"
                      /\ Len(g[1].value.elems) = 1
                      /\ IF r.kind = "DevelopmentTransition"
                         THEN IsStringify(g[1].value.elems[1], r.id_ident, r.chunks_ident)
                         ELSE g[1].value.elems[1] = r.id_ident
           /\ Finished =>
                  LET decls == ImportDeclsOf(output)
                  IN /\ \A a, b \in 1..Len(decls) :
                            (a # b /\ IsInjectedImport(decls[a]))
                                => LocalsOf(decls[a]) \cap LocalsOf(decls[b]) = {}
                     /\ \A k \in 1..Len(queued) :
                            \E a \in 1..Len(decls) :
                                /\ decls[a].src = queued[k].specifier
                                /\ LocalsOf(decls[a]) = BoundBy(queued[k])

\* in chunked development mode on the server the pass has returned with two
\* records of one specifier found at one place, queued by a call and by
\* the call nested in its loader
C14_Witness ==
    /\ Finished
    /\ state.kind = "Turbopack"
    /\ is_development
    /\ is_server
    /\ \E k, l \in 1..Len(QueuedFrom(1)) :
          /\ k # l
          /\ QueuedFrom(1)[k].specifier = QueuedFrom(1)[l].specifier
          /\ QueuedFrom(1)[k].id_ident.span = QueuedFrom(1)[l].id_ident.span
          /\ QueuedFrom(1)[k].id_ident # QueuedFrom(1)[l].id_ident

\* a path written out: prefix, root and components with the platform's
\* separator
RECURSIVE Joined(_, _)
Joined(comps, sep) ==
    IF comps = <<>> THEN ""
    ELSE IF Len(comps) = 1 THEN comps[1]
    ELSE comps[1] \o sep \o Joined(Tail(comps), sep)

PathString(path) ==
    path.prefix
    \o (IF path.abs THEN (IF path.win THEN "\\" ELSE "/") ELSE "")
    \o Joined(path.comps, IF path.win THEN "\\" ELSE "/")

\* the string form of a file name: a real path written out, any other
\* name in angle brackets
OpaqueString(file) ==
    IF file.kind = "Real" THEN PathString(file.path)
    ELSE IF file.kind = "Custom" THEN "<" \o file.name \o ">"
    ELSE "<anon>"

\* the components of a path with "." dropped and "name/.." cancelled; at
\* the root ".." stays at the root
RECURSIVE Normal(_, _, _)
Normal(comps, abs, done) ==
    IF comps = <<>> THEN done
    ELSE LET c == Head(comps)
         IN IF c = "." THEN Normal(Tail(comps), abs, done)
            ELSE IF c = ".."
            THEN IF done # <<>> /\ done[Len(done)] # ".."
                 THEN Normal(Tail(comps), abs, SubSeq(done, 1, Len(done) - 1))
                 ELSE IF abs THEN Normal(Tail(comps), abs, done)
                 ELSE Normal(Tail(comps), abs, Append(done, ".."))
            ELSE Normal(Tail(comps), abs, Append(done, c))

\* the relative path `rel`, followed from the directory, ends at the file
LeadsTo(base, rel, path) ==
    /\ base.abs = path.abs
    /\ base.prefix = path.prefix
    /\ Normal(base.comps \o rel, base.abs, <<>>) = Normal(path.comps, path.abs, <<>>)

\* relative paths: up from the directory and down the last components of
\* the file, and every path of up to three components made of ".." and
\* of the file's components
RelativePaths(base, path) ==
    {[k \in 1..n |-> ".."] \o SubSeq(path.comps, j, Len(path.comps)) :
        n \in 0..Len(base.comps), j \in 1..(Len(path.comps) + 1)}
    \cup SeqsUpTo(Range(path.comps) \cup {".."}, 3)

\* the relative paths from the directory to the file
RelativesFrom(base, path) ==
    {rel \in RelativePaths(base, path) : LeadsTo(base, rel, path)}

\* "<name> -> ", the left string of the `modules` key of a rewritten call
KeyLeft(call) == GeneratedProps(call)[1].value.elems[1].left.value

\* the path has a root (and on Windows a drive)
IsAbsolutePath(path) == path.abs /\ (path.win => path.prefix # "")

\* the strings a relative file name can be: the file's string form or a
\* relative path written out
FileNames(base, file) ==
    {OpaqueString(file)}
    \cup {PathString([win |-> file.path.win, prefix |-> "", abs |-> FALSE, comps |-> rel]) :
            rel \in IF base # [kind |-> "None"] /\ file.kind = "Real"
                    THEN RelativePaths(base, file.path) ELSE {}}

\* `name` is what the claim says of rel_filename(base, file)
IsRelFilename(name, base, file) ==
    IF base = [kind |-> "None"] \/ file.kind # "Real"
    THEN name = OpaqueString(file)
    ELSE IF RelativesFrom(base, file.path) # {}
    THEN \E rel \in RelativesFrom(base, file.path) :
            name = PathString([win |-> file.path.win, prefix |-> "", abs |-> FALSE,
                               comps |-> rel])
    ELSE IsAbsolutePath(file.path) /\ name = PathString(file.path)

(***************************************************************************)
(* C15, as claimed: rel_filename(base, file), read off the key of a        *)
(* rewritten call, is the file's opaque string form when there is no base  *)
(* or the file is no real path; otherwise a relative path from base to     *)
(* file when one exists, and the file's absolute display form when none    *)
(* exists.                                                                 *)
(***************************************************************************)
C15_AsClaimed ==
    \A i \in SiteIds :
        Rewritable(sites[i].input) =>
            \E name \in FileNames(pages_dir, filename) :
                /\ KeyLeft(sites[i].output) = name \o " -> "
                /\ IsRelFilename(name, pages_dir, filename)

\* the traversal is inside the capture visit of a loader call's argument 0:
\* the rest of that call's fold_call_expr waits on the stack
InCapture == \E k \in 1..Len(ctl) : ctl[k].t = "first_arg"

(***************************************************************************)
(* C16: the capture-mode flag is set exactly while the traversal is inside *)
(* the capture visit of a loader call's argument 0, and outside of it the  *)
(* pending-specifier slot is empty: so in every state before and after     *)
(* the step that decides a loader call (rewritten, silently skipped or     *)
(* rejected) and when the pass has returned.  The specifier a call is      *)
(* rewritten with is one of its own argument 0, and a call without a       *)
(* literal dynamic import in argument 0 is decided with no specifier,      *)
(* whatever the calls before it captured.                                  *)
(***************************************************************************)
C16_CaptureConfined ==
    /\ is_next_dynamic_first_arg <=> InCapture
    /\ ~InCapture => dynamically_imported_specifier = [kind |-> "None"]
    /\ Finished => ~InCapture
    /\ \A i \in SiteIds :
          LET s == sites[i]
          IN /\ s.captured # [kind |-> "None"] =>
                    /\ Rewritable(s.input)
                    /\ s.captured.value = LastLiteralImport(s.visited.args[1], "")
             /\ (WellFormed(s.input) /\ ~ContainsLiteralImport(s.input.args[1])) =>
                    /\ s.captured = [kind |-> "None"]
                    /\ s.output = s.visited

\* the pass has returned after a call that captured a specifier was
\* followed by a call with a computed specifier, decided with none
C16_Witness ==
    /\ Finished
    /\ ~is_next_dynamic_first_arg
    /\ \E i, j \in SiteIds :
          /\ i < j
          /\ sites[i].captured # [kind |-> "None"]
          /\ WellFormed(sites[j].input)
          /\ ~ContainsLiteralImport(sites[j].input.args[1])
          /\ sites[j].captured = [kind |-> "None"]

\* the calls through one of the bindings that a tree is or holds
RECURSIVE LoaderCallsIn(_, _)
LoaderCallsIn(n, bindings) ==
    (IF /\ n.kind = "Call"
        /\ n.callee.kind = "Ident"
        /\ <<n.callee.sym, n.callee.ctxt>> \in Range(bindings)
     THEN {n} ELSE {})
    \cup UNION {LoaderCallsIn(Children(n)[k], bindings) : k \in 1..Len(Children(n))}

\* the loader calls nested in the arguments of the site's call
NestedCalls(s) ==
    UNION {LoaderCallsIn(s.input.args[k], s.bindings) : k \in 1..Len(s.input.args)}

\* the position in the returned module's items of the import declaration
\* that binds the identifier (0 when there is none)
ImportPosition(id) ==
    LET at == {k \in 1..Len(output.body.items) :
                  /\ output.body.items[k].kind = "ImportDecl"
                  /\ output.body.items[k].specifiers[1].local = id}
    IN IF at = {} THEN 0 ELSE CHOOSE k \in at : TRUE

(***************************************************************************)
(* C17: children are rewritten before the enclosing call is inspected.     *)
(* When a loader call is decided, every loader call nested in one of its   *)
(* arguments has been decided before it: the arguments it is inspected     *)
(* with hold the nested calls as rewritten, the nested call's diagnostic   *)
(* comes before its own, the nested call's pending import is queued        *)
(* before its own, and in chunked mode the nested call's import stands     *)
(* before its own in the block injected into the module.                   *)
(***************************************************************************)
C17_ChildrenFirst ==
    \A i \in SiteIds :
        \A c \in NestedCalls(sites[i]) :
            \E j \in 1..(i - 1) :
                LET inner == sites[j]
                    outer == sites[i]
                IN /\ inner.input = c
                   /\ inner.output \in LoaderCallsIn(outer.visited, outer.bindings)
                   /\ inner.diags_after <= outer.diags_before
                   /\ Len(inner.queue_after) <= Len(outer.queue_before)
                   /\ (QueuedBy(inner) # <<>> /\ QueuedBy(outer) # <<>>) =>
                          /\ inner.queue_after
                                = SubSeq(outer.queue_before, 1, Len(inner.queue_after))
                          /\ Finished =>
                                /\ ImportPosition(QueuedBy(inner)[1].id_ident) > 0
                                /\ ImportPosition(QueuedBy(inner)[1].id_ident)
                                      < ImportPosition(QueuedBy(outer)[1].id_ident)

\* in chunked mode the pass has returned a module in which the import of a
\* call nested in another call's loader stands before that call's import
C17_Witness ==
    /\ Finished
    /\ state.kind = "Turbopack"
    /\ \E i, j \in SiteIds :
          /\ j < i
          /\ sites[j].input \in NestedCalls(sites[i])
          /\ QueuedBy(sites[j]) # <<>>
          /\ QueuedBy(sites[i]) # <<>>
          /\ ImportPosition(QueuedBy(sites[j])[1].id_ident) > 0
          /\ ImportPosition(QueuedBy(sites[j])[1].id_ident)
                < ImportPosition(QueuedBy(sites[i])[1].id_ident)

\* the sites decided at a call site
SitesAt(span) == {i \in SiteIds : sites[i].span = span}

(***************************************************************************)
(* C18: while the capture flag is set, no call is validated or rewritten.  *)
(* Every step that starts and ends with the flag set leaves the            *)
(* diagnostics, the pending imports, the pure-call flag, the bindings and  *)
(* the list of decided calls as they are, and the capture visit hands      *)
(* argument 0 back as it found it, with no metadata added.  So, although   *)
(* argument 0 of a loader call is traversed twice, every call site is      *)
(* decided at most once in a pass, earns at most one diagnostic and        *)
(* carries at most one loadableGenerated property.                         *)
(***************************************************************************)
C18_NoRewriteInCapture ==
    /\ [][(is_next_dynamic_first_arg /\ is_next_dynamic_first_arg') =>
              /\ diagnostics' = diagnostics
              /\ state' = state
              /\ added_nextjs_pure_import' = added_nextjs_pure_import
              /\ dynamic_bindings' = dynamic_bindings
              /\ marks' = marks
              /\ sites' = sites]_vars
    /\ []((ctl # <<>> /\ Head(ctl).t = "first_arg") =>
              vals[Len(vals)] = Head(ctl).n.args[1])
    /\ [](\A i \in SiteIds :
              /\ SitesAt(sites[i].span) = {i}
              /\ Cardinality(DiagnosticsAt(sites[i].span)) <= 1
              /\ Len(sites[i].output.args) = 2 /\ sites[i].output.args[2].kind = "Object"
                    => Cardinality(LoadableGeneratedAt(sites[i].output.args[2])) <= 1
              /\ \A c \in NestedCalls(sites[i]) :
                    \E j \in SiteIds :
                        /\ sites[j].input = c
                        /\ sites[j].output
                              \in LoaderCallsIn(sites[i].output, sites[i].bindings))

\* the pass has returned a module in which a call and the call nested in
\* its loader, traversed twice, were each rewritten once
C18_Witness ==
    /\ Finished
    /\ Len(sites) = 2
    /\ Rewritable(sites[1].input)
    /\ Rewritable(sites[2].input)
    /\ sites[1].input \in LoaderCallsIn(sites[2].input.args[1], sites[2].bindings)
    /\ LoadableGeneratedAt(sites[1].output.args[2]) = {1}
    /\ LoadableGeneratedAt(sites[2].output.args[2]) = {1}
    /\ sites[1].output \in LoaderCallsIn(sites[2].output.args[1], sites[2].bindings)

\* the literal specifier of a dynamic import, with the place it stands at:
\* import('...') or import(`...`) without interpolation; `found` otherwise
SpecifierOf(n, found) ==
    IF n.kind = "Call" /\ n.callee.kind = "Import"
    THEN IF n.args[1].kind = "Str"
         THEN [kind |-> "Some", value |-> n.args[1].value, span |-> n.args[1].span]
         ELSE IF n.args[1].kind = "Tpl" /\ n.args[1].exprs = <<>>
              THEN [kind |-> "Some", value |-> n.args[1].quasis[1].raw,
                    span |-> n.args[1].quasis[1].span]
              ELSE found
    ELSE found

\* the specifier of the last literal dynamic import of a tree, a node
\* being visited before its children and the children in their order
RECURSIVE LastSpecifier(_, _)
RECURSIVE LastSpecifierAll(_, _, _)
LastSpecifier(n, found) == LastSpecifierAll(Children(n), 1, SpecifierOf(n, found))

LastSpecifierAll(ns, i, found) ==
    IF i > Len(ns) THEN found
    ELSE LastSpecifierAll(ns, i + 1, LastSpecifier(ns[i], found))

\* the dynamic imports of a tree
RECURSIVE DynamicImportsIn(_)
DynamicImportsIn(n) ==
    (IF n.kind = "Call" /\ n.callee.kind = "Import" THEN {n} ELSE {})
    \cup UNION {DynamicImportsIn(Children(n)[k]) : k \in 1..Len(Children(n))}

(***************************************************************************)
(* C19: the specifier a loader call that passes the arity and shape checks *)
(* is decided with comes from the dynamic imports anywhere in argument 0:  *)
(* it is the argument, and the place, of the last dynamic import in        *)
(* visiting order whose argument is a string literal or a template         *)
(* literal without interpolation; a dynamic import with another argument   *)
(* neither sets nor clears it; there is a specifier, and the call is       *)
(* rewritten, exactly when argument 0 holds at least one such import, be   *)
(* it the import of a loader call nested in argument 0.                    *)
(***************************************************************************)
C19_LastLiteralImport ==
    \A i \in SiteIds :
        LET s == sites[i]
        IN WellFormed(s.input) =>
            /\ s.captured = LastSpecifier(s.input.args[1], [kind |-> "None"])
            /\ s.captured = LastSpecifier(s.visited.args[1], [kind |-> "None"])
            /\ (s.captured # [kind |-> "None"]) <=> ContainsLiteralImport(s.input.args[1])
            /\ (s.captured # [kind |-> "None"]) <=>
                   (Len(s.output.args) = 2 /\ HasLoadableGenerated(s.output.args[2])
                        /\ s.output # s.visited)
            /\ s.captured # [kind |-> "None"] =>
                   \E c \in DynamicImportsIn(s.input.args[1]) :
                       SpecifierOf(c, [kind |-> "None"]) = s.captured

\* a call whose loader holds a literal import of its own followed by a
\* loader call was rewritten with the specifier of the nested call's import
C19_Witness ==
    /\ Finished
    /\ \E i \in SiteIds :
          /\ WellFormed(sites[i].input)
          /\ Cardinality(DynamicImportsIn(sites[i].input.args[1])) = 2
          /\ sites[i].input.args[1].body.kind = "Array"
          /\ sites[i].input.args[1].body.elems[2].kind = "Call"
          /\ sites[i].input.args[1].body.elems[2].callee.kind = "Ident"
          /\ sites[i].captured # [kind |-> "None"]
          /\ sites[i].captured.value = "./a"
          /\ SpecifierOf(sites[i].input.args[1].body.elems[1], [kind |-> "None"]).value = "./b"



(***************************************************************************)
(* C20.  Which calls are loader calls.                                     *)
(***************************************************************************)
\* every call expression of a tree
RECURSIVE CallsIn(_)
CallsIn(n) ==
    (IF n.kind = "Call" THEN {n} ELSE {})
    \cup UNION {CallsIn(Children(n)[k]) : k \in 1..Len(Children(n))}

\* the callee is a plain identifier whose (name, scope identity) is one of
\* the bindings
Tracked(callee, bindings) ==
    /\ callee.kind = "Ident"
    /\ \E k \in 1..Len(bindings) :
          bindings[k][1] = callee.sym /\ bindings[k][2] = callee.ctxt

SkippedIds == 1..Len(skipped)

\* the call carries the metadata property among its options
HasMetadata(call) ==
    /\ Len(call.args) >= 2
    /\ call.args[2].kind = "Object"
    /\ \E k \in 1..Len(call.args[2].props) :
          /\ call.args[2].props[k].kind = "KeyValue"
          /\ call.args[2].props[k].key.sym = "loadableGenerated"

\* the call as the pass returned it has nothing the pass adds: it is the
\* call with its folded children, and the call itself when no loader call
\* is nested in it
LeftAlone(k) ==
    /\ skipped[k].output = skipped[k].visited
    /\ skipped[k].output.callee = skipped[k].input.callee
    /\ Len(skipped[k].output.args) = Len(skipped[k].input.args)
    /\ HasMetadata(skipped[k].output) = HasMetadata(skipped[k].input)
    /\ LoaderCallsIn(skipped[k].input, skipped[k].bindings) = {}
          => skipped[k].output = skipped[k].input
    /\ skipped[k].diags_after = skipped[k].diags_before
    /\ skipped[k].queue_after = skipped[k].queue_before
    /\ skipped[k].pure_after = skipped[k].pure_before

\* C20: a call that lines 185-187 decide is handled as a loader call
\* (validated: recorded in `sites`) exactly when its callee is a plain
\* identifier whose (name, scope identity) is in the tracked bindings at that
\* moment; every other call (recorded in `skipped`) is returned as it
\* is, with no metadata, no diagnostic, nothing queued and the pure-import
\* flag as it was; and every call of the module is decided one way or the
\* other by the time the pass ends.
C20_TrackedCallee ==
    /\ \A i \in SiteIds : Tracked(sites[i].input.callee, sites[i].bindings)
    /\ \A k \in SkippedIds :
          /\ ~Tracked(skipped[k].input.callee, skipped[k].bindings)
          /\ LeftAlone(k)
    /\ Finished =>
          \A c \in CallsIn(input) :
             \/ \E i \in SiteIds : sites[i].pass = pass /\ sites[i].input = c
             \/ \E k \in SkippedIds : skipped[k].pass = pass /\ skipped[k].input = c

\* C20 witness: the pass has ended on a module where a call through
\* `dynamic` came before the import declaration that binds it and was left
\* alone, although it has a literal import to capture, while the same call
\* after the declaration received its metadata.
C20_Witness ==
    /\ Finished
    /\ \E k \in SkippedIds, i \in SiteIds :
          /\ skipped[k].input.callee.kind = "Ident"
          /\ skipped[k].bindings = <<>>
          /\ Tracked(skipped[k].input.callee, dynamic_bindings)
          /\ Rewritable(skipped[k].input)
          /\ ~HasMetadata(skipped[k].output)
          /\ sites[i].input.callee.sym = skipped[k].input.callee.sym
          /\ sites[i].input.callee.ctxt = skipped[k].input.callee.ctxt
          /\ HasMetadata(sites[i].output)
          /\ \E j \in 1..Len(output.body.items) :
                /\ output.body.items[j].kind = "ExprStmt"
                /\ output.body.items[j].expr = skipped[k].input

(***************************************************************************)
(* C21.  Termination, and a rejected call stops its own rewrite only.      *)
(***************************************************************************)
\* the sites of the current pass that emitted a diagnostic
Rejected == {i \in SiteIds : sites[i].pass = pass
                             /\ sites[i].diags_after = sites[i].diags_before + 1}

\* every valid call of the module through a tracked binding, with a
\* literal import to capture, has a site whose result carries the metadata
ValidCallsRewritten ==
    \A c \in CallsIn(input) :
       (/\ c.callee.kind = "Ident"
        /\ Rewritable(c)
        /\ ~\E k \in SkippedIds : skipped[k].pass = pass /\ skipped[k].input = c)
       => \E i \in SiteIds :
             /\ sites[i].pass = pass
             /\ sites[i].input = c
             /\ sites[i].diags_after = sites[i].diags_before
             /\ HasMetadata(sites[i].output)

\* the steps after the items: the injector has run on the module's items
\* and left nothing queued, and the helper import is there when a site
\* asked for it
PostOrderStepsRan ==
    /\ lists # <<>>
    /\ Len(lists[Len(lists)].items) = Len(input.body.items)
    /\ \A k \in 1..Len(input.body.items) :
          lists[Len(lists)].items[k].kind = input.body.items[k].kind
    /\ Queue(state) = <<>>
    /\ (\E i \in SiteIds : sites[i].pass = pass /\ sites[i].pure_after)
          => nextjs_pure_import \in Range(output.body.items)

\* C21: the pass ends on every module, and when it has ended every valid
\* loader call has been rewritten whether or not other calls were rejected,
\* before or after it, and the import injector and the pure-call helper
\* import have run.
C21_TerminatesAndIsolates ==
    /\ <>Finished
    /\ [](Finished => ValidCallsRewritten /\ PostOrderStepsRan)

\* C21 witness: the pass has ended on a Turbopack module in which a
\* rejected call stands between two rewritten ones, the later of which
\* asked for the helper import, and both queued imports were spliced in.
C21_Witness ==
    /\ Finished
    /\ state.kind = "Turbopack"
    /\ \E i, j, k \in SiteIds :
          /\ i < j /\ j < k
          /\ j \in Rejected
          /\ HasMetadata(sites[i].output) /\ ~HasMetadata(sites[i].input)
          /\ HasMetadata(sites[k].output) /\ ~HasMetadata(sites[k].input)
          /\ sites[k].pure_after
          /\ ~HasMetadata(sites[j].output)
    /\ nextjs_pure_import \in Range(output.body.items)
    /\ Len(lists[Len(lists)].imports) = 2

(***************************************************************************)
(* C22.  A marker and the import declaration of its record stay together.  *)
(***************************************************************************)
TransitionText == "TURBOPACK { transition: next-dynamic }"

ChunkingNoneText == "TURBOPACK { chunking-type: none }"

\* the marker text that goes with a record: the transition for the two
\* transition shapes, the chunking exemption for the two id-only shapes
MarkerTextOf(record) ==
    IF record.kind \in {"DevelopmentTransition", "BuildTransition"}
    THEN TransitionText
    ELSE ChunkingNoneText

IsMarker(item) ==
    /\ item.kind = "ExprStmt"
    /\ item.expr.kind = "Str"
    /\ item.expr.value \in {TransitionText, ChunkingNoneText}

\* the statement is the import declaration of the record
IsImportOf(item, record) ==
    /\ item.kind = "ImportDecl"
    /\ item.src = record.specifier
    /\ item.specifiers # <<>>
    /\ item.specifiers[1].local = record.id_ident

\* every record the injector has drained from the queue so far
Drained == UNION {Range(lists[j].imports) : j \in 1..Len(lists)}

\* the injector's own result: two statements per record, the record's
\* marker and then the record's import declaration
TwoStatementsPerRecord ==
    \A j \in 1..Len(lists) :
        LET l == lists[j]
        IN /\ Len(l.result) = 2 * Len(l.imports) + Len(l.items)
           /\ \A k \in 1..Len(l.imports) :
                 /\ IsMarker(l.result[2 * k - 1])
                 /\ l.result[2 * k - 1].expr.value = MarkerTextOf(l.imports[k])
                 /\ IsImportOf(l.result[2 * k], l.imports[k])

\* in the returned module every marker is immediately followed by the
\* import declaration of a drained record that the marker goes with
MarkersKeepTheirImports ==
    \A p \in 1..Len(output.body.items) :
        IsMarker(output.body.items[p]) =>
            /\ p < Len(output.body.items)
            /\ \E r \in Drained :
                  /\ output.body.items[p].expr.value = MarkerTextOf(r)
                  /\ IsImportOf(output.body.items[p + 1], r)

\* C22, as claimed: each drained record yields a marker immediately
\* followed by its import declaration, with the marker that goes with the
\* record's shape, and in the module the pass returns, the pure-call helper
\* import included, every marker is still immediately followed by the
\* import declaration of its own record.
C22_AsClaimed ==
    /\ TwoStatementsPerRecord
    /\ Finished => MarkersKeepTheirImports

(***************************************************************************)
(* C23.  Simple mode: the injector is a no-op.                             *)
(***************************************************************************)
\* the sequence without its p-th element
RemoveAt(seq, p) == SubSeq(seq, 1, p - 1) \o SubSeq(seq, p + 1, Len(seq))

\* the positions of the pure-call helper import in the items
HelperPositions(items) == {p \in 1..Len(items) : items[p] = nextjs_pure_import}

\* the two lists have the same statements one by one: the same kind, the
\* same declaration where it is an import, and the same number of items in
\* a nested block
SameStatements(a, b) ==
    /\ Len(a) = Len(b)
    /\ \A k \in 1..Len(a) :
          /\ a[k].kind = b[k].kind
          /\ a[k].kind = "ImportDecl" => a[k] = b[k]
          /\ a[k].kind = "TsModule" => Len(a[k].body.items) = Len(b[k].body.items)

\* C23: in simple (Webpack) mode every run of the import injector returns
\* the list it was given, items and order unchanged, and the module the
\* pass returns has the statements of the input module one by one, plus
\* exactly one pure-call helper import when a call site asked for it and
\* none otherwise.
C23_SimpleModeFrame ==
    state.kind = "Webpack" =>
        /\ \A j \in 1..Len(lists) :
              /\ lists[j].imports = <<>>
              /\ lists[j].result = lists[j].items
        /\ Finished =>
              LET helpers == HelperPositions(output.body.items)
                  asked == \E i \in SiteIds : sites[i].pure_after
              IN /\ Cardinality(helpers) = (IF asked THEN 1 ELSE 0)
                 /\ \A p \in helpers :
                       /\ SameStatements(RemoveAt(output.body.items, p), input.body.items)
                       /\ RemoveAt(output.body.items, p) = lists[Len(lists)].result
                 /\ helpers = {} =>
                       /\ SameStatements(output.body.items, input.body.items)
                       /\ output.body.items = lists[Len(lists)].result

\* C23 witness: the pass has ended in simple mode on a module with a
\* namespace block that holds a statement; the injector ran on both lists,
\* two call sites asked for the helper import and the module came back one
\* statement longer.
C23_Witness ==
    /\ state.kind = "Webpack"
    /\ Finished
    /\ Len(lists) >= 2
    /\ \E j \in 1..Len(lists) : Len(lists[j].items) = 1
    /\ \E i, k \in SiteIds : i # k /\ sites[i].pure_after /\ ~sites[i].pure_before
                             /\ HasMetadata(sites[k].output) /\ sites[k].pure_before
                             /\ OptionsSsrFalse(sites[k].input)
    /\ Len(output.body.items) = Len(input.body.items) + 1

(***************************************************************************)
(* C24.  What the generated metadata depends on.                           *)
(***************************************************************************)
\* the value of the loadableGenerated property of a rewritten call
GeneratedValue(call) == call.args[2].props[1].value

\* the site of the second run at the call site of a site of the first,
\* both with the same specifier captured
SameCall(i, j) ==
    /\ sites[i].pass = 1
    /\ sites[j].pass = 2
    /\ sites[i].span = sites[j].span
    /\ sites[i].captured # None
    /\ sites[j].captured = sites[i].captured

\* C24: of two runs with the same build tool, development flag, server
\* flag, pages directory and file name, on modules that differ in the
\* options of their loader calls only, and with any two values of the
\* server-component-layer flag, the rewrites of the same call with the same
\* captured specifier carry the same loadableGenerated value and queue
\* the same records.
C24_GeneratedDependsOn ==
    \A i, j \in SiteIds :
        SameCall(i, j) =>
            /\ HasMetadata(sites[i].output)
            /\ HasMetadata(sites[j].output)
            /\ sites[i].output.args[2].props[1].key.sym = "loadableGenerated"
            /\ sites[j].output.args[2].props[1].key.sym = "loadableGenerated"
            /\ GeneratedValue(sites[i].output) = GeneratedValue(sites[j].output)
            /\ QueuedBy(sites[i]) = QueuedBy(sites[j])

\* C24 witness: the second run has ended on a Turbopack module of two
\* calls; one call had `ssr: false` in both runs and its loader was wrapped
\* in one run only, so the layer flag differed; the other call had no
\* options in the first run and `ssr: false` in the second; each queued
\* its record in both runs.
C24_Witness ==
    /\ pass = 2
    /\ Finished
    /\ state.kind = "Turbopack"
    /\ \E i, j, k, l \in SiteIds :
          /\ SameCall(i, j)
          /\ sites[i].input = sites[j].input
          /\ OptionsSsrFalse(sites[i].input)
          /\ sites[i].output.args[1] # sites[j].output.args[1]
          /\ QueuedBy(sites[i]) # <<>>
          /\ SameCall(k, l)
          /\ Len(sites[k].input.args) = 1
          /\ OptionsSsrFalse(sites[l].input)
          /\ QueuedBy(sites[l]) # <<>>

(***************************************************************************)
(* C25.  The scan of the options for `ssr: false`.                         *)
(***************************************************************************)
\* a property that cannot set the flag: a spread, a shorthand, a method,
\* a key that is no identifier, or a value that is no boolean literal
CannotSet(prop) ==
    \/ prop.kind \in {"Spread", "Shorthand", "Method"}
    \/ /\ prop.kind = "KeyValue"
       /\ \/ prop.key.kind # "Ident"
          \/ prop.value.kind # "Bool"

\* the properties of the call's options, none without an object literal
OptionsOf(call) ==
    IF Len(call.args) = 2 /\ call.args[2].kind = "Object" THEN call.args[2].props ELSE <<>>

\* the site's loader came back wrapped and the site set the pure-call flag
WrappedAt(i) ==
    /\ IsPureWrapper(sites[i].output.args[1], sites[i].visited.args[1])
    /\ sites[i].pure_after

\* C25: on the server outside the server-component layer, where the
\* wrapper shows the flag, a rewritten call is wrapped exactly when some
\* key-value property of its options has the identifier key `ssr` and the
\* literal value false, whatever the other properties are, another `ssr`
\* property with a different value before or behind it included; options
\* made only of properties with a non-identifier key, a non-literal value,
\* spreads, shorthands and methods never wrap.
C25_SsrFalseScan ==
    \A i \in SiteIds :
        (sites[i].captured # None /\ is_server /\ ~is_rsc_server_layer) =>
            /\ WrappedAt(i) <=> OptionsSsrFalse(sites[i].input)
            /\ (\A k \in 1..Len(OptionsOf(sites[i].input)) :
                    CannotSet(OptionsOf(sites[i].input)[k]))
                  => /\ ~WrappedAt(i)
                     /\ sites[i].output.args[1] = sites[i].visited.args[1]
                     /\ sites[i].pure_after = sites[i].pure_before

\* C25 witness: a call whose options are `{ ssr: false, ssr: true }` was
\* rewritten on the server outside the server-component layer and its
\* loader was wrapped.
C25_Witness ==
    /\ is_server
    /\ ~is_rsc_server_layer
    /\ \E i \in SiteIds :
          /\ sites[i].captured # None
          /\ OptionsOf(sites[i].input) = <<SsrFalse, SsrTrue>>
          /\ WrappedAt(i)
          /\ ~sites[i].pure_before

=============================================================================
